---- MODULE Spec2Model ----
(***************************************************************************)
(* Model of the product configurator's state/material binder               *)
(* (ConfiguratorEngine), its texture cache and the orchestrator's          *)
(* URL-parameter application (XRUpgradeConfigurator.applyURLParameters).   *)
(*                                                                         *)
(* JavaScript is single-threaded: an async function runs atomically from   *)
(* one await to the next.  Every in-flight async call is a task record     *)
(* whose pc names the await it is suspended at; an action is either the    *)
(* synchronous prefix of a public call or the resumption of one task.      *)
(***************************************************************************)
EXTENDS Integers, Sequences, FiniteSets, TLC

\* ------------------------------------------------------------------ bounds
MaxTasks == 2
MaxFailures == 1
MaxOps == 2

\* ----------------------------------------------------------- configuration
\* The configuration document: two colors, the dynamic strap plus one fixed
\* strap, two environments (the shape documented in README.md).  Identifiers
\* are free-form strings; two of them contain characters that the share
\* link has to escape.
Colors == {"red", "sky blue"}
Straps == {"selected", "orange"}
Environments == {"studio", "b&w"}

\* An identifier that no collection of the configuration contains.
Unknown == "nonexistent"

DefaultColor == "red"
DefaultEnvironment == "studio"

\* color.textures of each configured color; the roughness map is shared.
ColorTextures(c) ==
  IF c = "red"
  THEN [primary |-> "red_p", accent |-> "red_a", roughness |-> "rough"]
  ELSE [primary |-> "sky_p", accent |-> "sky_a", roughness |-> "rough"]

NoUrl == "no_url"
Urls == {"red_p", "red_a", "sky_p", "sky_a", "rough", "orange_a"}

\* ------------------------------------------------------- texture handles
\* createTexture(url) resolves to a fresh handle: <<url, n>> is the handle
\* produced by the n-th createTexture call for url.
Null == <<"null", 0>>          \* the JavaScript null a failed load yields
Absent == <<"absent", 0>>      \* Map.has(url) is false
Original == <<"model", 0>>     \* the texture the model file ships with

\* ------------------------------------------------------------------ state
VARIABLES
  currentState,   \* engine.currentState {color, strap, environment}
  defaultStrap,   \* config.defaultStrap
  materials,      \* engine.materials is set (TRUE) or still null (FALSE)
  slots,          \* textures bound to the model's material slots
  textureCache,   \* engine.textureCache: url -> handle
  createCount,    \* number of modelViewer.createTexture(url) calls so far
  failures,       \* failures the viewer has produced so far
  ops,            \* public calls made so far
  tasks,          \* in-flight async calls
  last,           \* the call that settled most recently (observation)
  scenario,       \* reset / share-link replay being observed
  held,           \* object references handed to code outside the engine
  fetched,        \* url -> what the latest completed getTexture(url) returned
  lastGet,        \* the getTexture call that completed most recently
  isReady,        \* engine.isReady
  notified,       \* events start-up and preload passed to notifyListeners
  init,           \* the XRUpgradeConfigurator.initialize / engine.initialize call
  preload,        \* the background texture preload
  viewer,         \* the model-viewer element as the engine sees it
  ar,             \* the engine.activateAR() call under way
  shot,           \* the engine.takeScreenshot() call under way
  widgets,        \* currentColor / currentStrap / currentEnvironment of the UI
  device,         \* what navigator, window and location show to the page
  support,        \* what the latest DeviceDetection.checkARSupport() returned
  config,         \* the configuration document handed to the constructor
  binder,         \* outcome of new XRUpgradeConfigurator(config)
  log,            \* what the engine's calls did, in the order they did it
  idle,           \* the engine's idle tracker and the viewer's auto-rotate
  layout,         \* the orchestrator's deviceInfo and the UI it has built
  bus,            \* engine.eventListeners of one event and its latest dispatch
  worker          \* the service worker's caches and its latest handleRequest

vars == <<currentState, defaultStrap, materials, slots, textureCache,
          createCount, failures, ops, tasks, last, scenario, held,
          fetched, lastGet, isReady, notified, init, preload, viewer, ar,
          shot, widgets, device, support, config, binder, log, idle,
          layout, bus, worker>>

\* The variables of the start-up sequence; the change operations, the cache
\* requests and the outside references leave them alone.
later == <<widgets, device, support, config, binder>>
aside == <<bus, worker>>
newer == <<log, idle, layout, aside>>
apart == <<viewer, ar, shot, later, newer>>
outside == <<isReady, notified, init, preload, apart>>

TaskIds == 1..MaxTasks

NoTex == [primary |-> Null, accent |-> Null, roughness |-> Null]
NoState == [color |-> "-", strap |-> "-", environment |-> "-"]

Idle ==
  [op |-> "idle", arg |-> "-", pc |-> "-", wait |-> "-", url |-> NoUrl,
   got |-> Null, prev |-> "-", tex |-> NoTex, emitted |-> <<>>,
   pre |-> NoState, alone |-> FALSE, loads |-> 0, loadFailed |-> FALSE,
   wrote |-> FALSE, repeat |-> FALSE]

NoCall ==
  [op |-> "none", arg |-> "-", pre |-> NoState, post |-> NoState,
   emitted |-> <<>>, alone |-> FALSE, loads |-> 0, loadFailed |-> FALSE,
   threw |-> FALSE, wrote |-> FALSE, repeat |-> FALSE,
   outcome |-> "resolved"]

NoGet == [url |-> NoUrl, first |-> Absent, second |-> Absent, loads |-> 0]

NoScenario == [kind |-> "none", target |-> NoState, clean |-> FALSE]

InFlight(ts) == {i \in TaskIds : ts[i].op # "idle"}
FreeSlots(ts) == {i \in TaskIds : ts[i].op = "idle"}

\* ------------------------------------------------------ configuration lookup
\* config.colors.find(c => c.id === colorId) found an entry
FindColor(id) == id \in Colors
\* config.straps.find(s => s.id === strapId) found an entry
FindStrap(id) == id \in Straps
\* Variant: the lookup accepts any identifier.
FindEnvironmentAny(id) == TRUE
\* config.environments.find(e => e.id === environmentId) found an entry
FindEnvironment(id) == id \in Environments

\* strap.texture of a configured strap (the dynamic strap has none)
StrapFixedTexture(s) == IF s = "orange" THEN "orange_a" ELSE NoUrl

\* The texture applyStrapConfiguration decides to load: the accent texture
\* of the color that is current at that moment for 'selected', the strap's
\* own texture otherwise; NoUrl when there is nothing to apply.
StrapTexture(strapId, color) ==
  IF strapId = "selected"
  THEN IF FindColor(color) THEN ColorTextures(color).accent ELSE NoUrl
  ELSE IF FindStrap(strapId) THEN StrapFixedTexture(strapId) ELSE NoUrl

\* The strap identifier changeColor forces once the color textures are on.
ForcedStrap == "selected"

Defaults ==
  [color |-> DefaultColor, strap |-> defaultStrap,
   environment |-> DefaultEnvironment]

\* ------------------------------------------------------------ texture cache
\* Variant: the cache is never consulted.
CacheHitNever(cache, url) == FALSE
\* textureCache.has(url)
CacheHit(cache, url) == cache[url] # Absent
CacheSet(cache, url, h) == [cache EXCEPT ![url] = h]
\* Variant: the loaded handle is returned but not stored.
CacheAfterLoadDrop(cache, url, h, ok) == cache
\* What preloadTexture does with the outcome of createTexture: a resolved
\* handle is stored and returned, a rejection is logged and null returned.
CacheAfterLoad(cache, url, h, ok) == IF ok THEN CacheSet(cache, url, h) ELSE cache
LoadResult(h, ok) == IF ok THEN h ELSE Null

\* ------------------------------------------------------------------ events
ColorChanged(id) == <<"colorChanged", id>>
StrapChanged(id) == <<"strapChanged", id>>
EnvironmentChanged(id) == <<"environmentChanged", id>>
ErrorEvent(type) == <<"error", type>>

\* ------------------------------------------------- the engine as one record
\* The synchronous prefixes of the public calls are composed by reset() and
\* applyURLParameters(), so they are written as functions over a record W of
\* the engine's fields.  W.overflow records that a bound was exceeded.
World ==
  [cs |-> currentState, mats |-> materials, slots |-> slots,
   cache |-> textureCache, count |-> createCount, tasks |-> tasks,
   last |-> last, overflow |-> FALSE]

MarkOverlap(ts) ==
  [i \in TaskIds |->
     IF ts[i].op = "idle" THEN ts[i] ELSE [ts[i] EXCEPT !.alone = FALSE]]

FirstFree(ts) == CHOOSE i \in FreeSlots(ts) : \A j \in FreeSlots(ts) : i <= j

\* getTexture(url) as called by task t, up to its suspension: a cache hit
\* returns the cached handle, a miss calls modelViewer.createTexture(url).
BeginGet(W, t, pc, url) ==
  IF CacheHit(W.cache, url)
  THEN [W EXCEPT !.tasks[t].pc = pc, !.tasks[t].url = url,
                 !.tasks[t].wait = "ready", !.tasks[t].got = W.cache[url]]
  ELSE [W EXCEPT !.tasks[t].pc = pc, !.tasks[t].url = url,
                 !.tasks[t].wait = "load",
                 !.tasks[t].got = <<url, W.count[url] + 1>>,
                 !.tasks[t].loads = @ + 1,
                 !.count[url] = @ + 1]

\* applyStrapConfiguration(strapId) as called by task t, up to its suspension
BeginStrap(W, t, strapId) ==
  IF ~W.mats
  THEN [W EXCEPT !.tasks[t].pc = "catch", !.tasks[t].wait = "-"]
  ELSE LET url == StrapTexture(strapId, W.cs.color) IN
       IF url = NoUrl
       THEN [W EXCEPT !.tasks[t].pc = "strapDone", !.tasks[t].wait = "-"]
       ELSE BeginGet(W, t, "strap", url)

\* applyColorTextures(color) as called by task t, up to its suspension
BeginColorTextures(W, t, color) ==
  IF ~W.mats
  THEN [W EXCEPT !.tasks[t].pc = "catch", !.tasks[t].wait = "-"]
  ELSE BeginGet(W, t, "primary", ColorTextures(color).primary)

Summary(task, post, threw) ==
  [op |-> task.op, arg |-> task.arg, pre |-> task.pre, post |-> post,
   emitted |-> task.emitted, alone |-> task.alone, loads |-> task.loads,
   loadFailed |-> task.loadFailed, threw |-> threw, wrote |-> task.wrote,
   repeat |-> task.repeat, outcome |-> "resolved"]

\* A call that returned without suspending and without effect.
NoOpSummary(W, op, id) ==
  [NoCall EXCEPT !.op = op, !.arg = id, !.pre = W.cs, !.post = W.cs,
                 !.alone = (InFlight(W.tasks) = {})]

Settle(W, t, threw) ==
  [W EXCEPT !.last = Summary(W.tasks[t], W.cs, threw), !.tasks[t] = Idle]

\* A successful changeColor(id) has just settled and nothing ran since.
IsRepeat(W, id) ==
  /\ W.last.op = "changeColor" /\ W.last.arg = id
  /\ W.last.alone /\ ~W.last.threw /\ ~W.last.loadFailed
  /\ W.last.post = W.cs
  /\ InFlight(W.tasks) = {}

\* Variant: a changeColor made while another one is in flight is dropped.
DoChangeColorExclusive(W, id) ==
  IF ~FindColor(id) \/ \E i \in InFlight(W.tasks) : W.tasks[i].op = "changeColor"
  THEN [W EXCEPT !.last = NoOpSummary(W, "changeColor", id)]
  ELSE LET t == FirstFree(W.tasks)
           task == [Idle EXCEPT !.op = "changeColor", !.arg = id,
                                !.prev = W.cs.color, !.pre = W.cs,
                                !.emitted = <<ColorChanged(id)>>,
                                !.alone = (InFlight(W.tasks) = {}),
                                !.repeat = IsRepeat(W, id)]
           W1 == [W EXCEPT !.cs.color = id,
                           !.tasks = [MarkOverlap(W.tasks) EXCEPT ![t] = task],
                           !.last = NoCall]
       IN BeginColorTextures(W1, t, id)
\* changeColor(colorId) up to its first suspension
DoChangeColor(W, id) ==
  IF ~FindColor(id)
  THEN [W EXCEPT !.last = NoOpSummary(W, "changeColor", id)]
  ELSE IF FreeSlots(W.tasks) = {} THEN [W EXCEPT !.overflow = TRUE]
  ELSE LET t == FirstFree(W.tasks)
           task == [Idle EXCEPT !.op = "changeColor", !.arg = id,
                                !.prev = W.cs.color, !.pre = W.cs,
                                !.emitted = <<ColorChanged(id)>>,
                                !.alone = (InFlight(W.tasks) = {}),
                                !.repeat = IsRepeat(W, id)]
           W1 == [W EXCEPT !.cs.color = id,
                           !.tasks = [MarkOverlap(W.tasks) EXCEPT ![t] = task],
                           !.last = NoCall]
       IN BeginColorTextures(W1, t, id)

\* Variant: the strap is only written after the texture work, i.e. not here.
StrapUpdateNone(cs, id) == cs
\* The state update changeStrap makes before it applies anything.
StrapUpdate(cs, id) == [cs EXCEPT !.strap = id]

\* changeStrap(strapId) up to its first suspension
DoChangeStrap(W, id) ==
  IF ~FindStrap(id)
  THEN [W EXCEPT !.last = NoOpSummary(W, "changeStrap", id)]
  ELSE IF FreeSlots(W.tasks) = {} THEN [W EXCEPT !.overflow = TRUE]
  ELSE LET t == FirstFree(W.tasks)
           task == [Idle EXCEPT !.op = "changeStrap", !.arg = id,
                                !.pre = W.cs,
                                !.alone = (InFlight(W.tasks) = {})]
           W1 == [W EXCEPT !.cs = StrapUpdate(W.cs, id),
                           !.tasks = [MarkOverlap(W.tasks) EXCEPT ![t] = task],
                           !.last = NoCall]
       IN BeginStrap(W1, t, id)

\* changeEnvironment(environmentId): synchronous, no texture work
DoChangeEnvironment(W, id) ==
  IF ~FindEnvironment(id)
  THEN [W EXCEPT !.last = NoOpSummary(W, "changeEnvironment", id)]
  ELSE [W EXCEPT !.cs.environment = id,
                 !.tasks = MarkOverlap(W.tasks),
                 !.last = [NoOpSummary(W, "changeEnvironment", id) EXCEPT
                             !.post = [W.cs EXCEPT !.environment = id],
                             !.emitted = <<EnvironmentChanged(id)>>]]

\* ------------------------------------------------------ material slot writes
\* The four setTexture calls of applyColorTextures, in source order; k is the
\* number of calls that return before one throws (4: none throws).
ApplyColor(sl, tex, k) ==
  [primary   |-> IF k >= 1 THEN tex.primary ELSE sl.primary,
   secondary |-> IF k >= 2 THEN tex.accent ELSE sl.secondary,
   accent    |-> IF k >= 3 THEN tex.accent ELSE sl.accent,
   roughness |-> IF k >= 4 THEN tex.roughness ELSE sl.roughness]

\* Variant: the catch block keeps the requested color.
RollbackColorNone(task) == task.arg
\* The color changeColor's catch block restores.
RollbackColor(task) == task.prev

\* The catch block of changeColor: rollback, re-emission, error event.
CatchColor(W, t) ==
  LET task == W.tasks[t]
      W1 == [W EXCEPT !.cs.color = RollbackColor(task),
                      !.tasks[t].emitted =
                         @ \o <<ColorChanged(RollbackColor(task)),
                                ErrorEvent("user")>>]
  IN Settle(W1, t, TRUE)

\* Variant: the announcement always carries the call's own argument.
FinishStrapArg(W, t) ==
  Settle([W EXCEPT !.tasks[t].emitted = @ \o <<StrapChanged(W.tasks[t].arg)>>],
         t, FALSE)
\* The statements after a successful applyStrapConfiguration: changeColor
\* announces the forced strap, changeStrap the requested one.
FinishStrap(W, t) ==
  LET task == W.tasks[t]
      id == IF task.op = "changeColor" THEN ForcedStrap ELSE task.arg
  IN Settle([W EXCEPT !.tasks[t].emitted = @ \o <<StrapChanged(id)>>], t, FALSE)

\* Task t resumes with the texture handle h it was waiting for and runs to
\* its next suspension; k is the number of setTexture calls that succeed.
Continue(W, t, h, k) ==
  LET task == W.tasks[t] IN
  CASE task.pc = "primary" ->
         BeginGet([W EXCEPT !.tasks[t].tex.primary = h], t, "accent",
                  ColorTextures(task.arg).accent)
    [] task.pc = "accent" ->
         BeginGet([W EXCEPT !.tasks[t].tex.accent = h], t, "roughness",
                  ColorTextures(task.arg).roughness)
    [] task.pc = "roughness" ->
         LET tex == [task.tex EXCEPT !.roughness = h]
             W1 == [W EXCEPT !.tasks[t].tex = tex,
                             !.tasks[t].wrote = (@ \/ k > 0),
                             !.slots = ApplyColor(W.slots, tex, k)]
         IN IF k < 4
            THEN [W1 EXCEPT !.tasks[t].pc = "catch", !.tasks[t].wait = "-"]
            ELSE BeginStrap([W1 EXCEPT !.cs.strap = ForcedStrap], t, ForcedStrap)
    [] task.pc = "strap" ->
         IF k < 1
         THEN IF task.op = "changeColor"
              THEN [W EXCEPT !.tasks[t].pc = "catch", !.tasks[t].wait = "-"]
              ELSE Settle(W, t, TRUE)
         ELSE FinishStrap([W EXCEPT !.slots.accent = h,
                                    !.tasks[t].wrote = TRUE], t)

ApplyChoices(task) ==
  IF task.pc = "roughness" THEN 0..4
  ELSE IF task.pc = "strap" THEN 0..1 ELSE {0}

\* Number of failures the viewer produces in one resumption: a rejected
\* createTexture and/or a setTexture that throws.
Failed(task, ok, k) ==
  (IF ok THEN 0 ELSE 1)
  + (IF (task.pc = "roughness" /\ k < 4) \/ (task.pc = "strap" /\ k < 1)
     THEN 1 ELSE 0)

\* -------------------------------------------------------------- share link
\* Strings are opaque values, so the text of every identifier and parameter
\* name is spelled out as a sequence of characters.
Text(id) ==
  CASE id = "red" -> <<"r", "e", "d">>
    [] id = "sky blue" -> <<"s", "k", "y", " ", "b", "l", "u", "e">>
    [] id = "selected" -> <<"s", "e", "l", "e", "c", "t", "e", "d">>
    [] id = "orange" -> <<"o", "r", "a", "n", "g", "e">>
    [] id = "studio" -> <<"s", "t", "u", "d", "i", "o">>
    [] id = "b&w" -> <<"b", "&", "w">>
    [] id = "color" -> <<"c", "o", "l", "o", "r">>
    [] id = "strap" -> <<"s", "t", "r", "a", "p">>
    [] id = "environment" ->
         <<"e", "n", "v", "i", "r", "o", "n", "m", "e", "n", "t">>
    [] OTHER -> <<"n", "o", "n", "e", "x", "i", "s", "t", "e", "n", "t">>

AllIds == Colors \cup Straps \cup Environments
\* The identifier a text denotes; a text that spells none of the configured
\* identifiers is some string no find() matches.
IdOfText(txt) ==
  IF \E id \in AllIds : Text(id) = txt
  THEN CHOOSE id \in AllIds : Text(id) = txt
  ELSE Unknown

\* application/x-www-form-urlencoded byte serializer (URLSearchParams.toString)
EncodeChar(c) ==
  CASE c = " " -> <<"+">>
    [] c = "&" -> <<"%", "2", "6">>
    [] c = "+" -> <<"%", "2", "B">>
    [] c = "=" -> <<"%", "3", "D">>
    [] c = "%" -> <<"%", "2", "5">>
    [] OTHER -> <<c>>

RECURSIVE Encode(_)
Encode(txt) ==
  IF txt = <<>> THEN <<>> ELSE EncodeChar(Head(txt)) \o Encode(Tail(txt))

\* new URLSearchParams(object).toString(): name=value pairs in property
\* order, joined by '&'
Serialize(cs) ==
  Encode(Text("color")) \o <<"=">> \o Encode(Text(cs.color)) \o <<"&">>
  \o Encode(Text("strap")) \o <<"=">> \o Encode(Text(cs.strap)) \o <<"&">>
  \o Encode(Text("environment")) \o <<"=">> \o Encode(Text(cs.environment))

\* getShareURL(): the query part of origin + pathname + '?' + params
GetShareURL(cs) == <<"?">> \o Serialize(cs)

PercentDecode(hi, lo) ==
  CASE hi = "2" /\ lo = "6" -> "&"
    [] hi = "2" /\ lo = "B" -> "+"
    [] hi = "3" /\ lo = "D" -> "="
    [] hi = "2" /\ lo = "5" -> "%"
    [] hi = "2" /\ lo = "0" -> " "
    [] OTHER -> "?"

\* urlencoded parser, value part: '+' is a space, %XY is one byte
RECURSIVE Decode(_)
Decode(txt) ==
  IF txt = <<>> THEN <<>>
  ELSE IF Head(txt) = "+" THEN <<" ">> \o Decode(Tail(txt))
  ELSE IF Head(txt) = "%" /\ Len(txt) >= 3
       THEN <<PercentDecode(txt[2], txt[3])>> \o Decode(SubSeq(txt, 4, Len(txt)))
  ELSE <<Head(txt)>> \o Decode(Tail(txt))

\* Position of the first occurrence of c in txt, 0 when there is none.
RECURSIVE IndexOf(_, _, _)
IndexOf(txt, c, i) ==
  IF i > Len(txt) THEN 0
  ELSE IF txt[i] = c THEN i ELSE IndexOf(txt, c, i + 1)

\* The pieces of txt between separators c.
RECURSIVE Split(_, _)
Split(txt, c) ==
  LET i == IndexOf(txt, c, 1) IN
  IF i = 0 THEN <<txt>>
  ELSE <<SubSeq(txt, 1, i - 1)>> \o Split(SubSeq(txt, i + 1, Len(txt)), c)

\* One name=value piece as a decoded <<name, value>> pair.
ParsePair(piece) ==
  LET i == IndexOf(piece, "=", 1) IN
  IF i = 0 THEN <<Decode(piece), <<>>>>
  ELSE <<Decode(SubSeq(piece, 1, i - 1)),
         Decode(SubSeq(piece, i + 1, Len(piece)))>>

\* new URLSearchParams(window.location.search): a leading '?' is dropped,
\* empty pieces are skipped.
ParseSearch(search) ==
  LET body == IF search # <<>> /\ Head(search) = "?" THEN Tail(search) ELSE search
      pieces == Split(body, "&")
  IN [i \in {j \in 1..Len(pieces) : pieces[j] # <<>>} |-> ParsePair(pieces[i])]

\* params.has(name) and params.get(name): the first pair with that name
ParamsHas(params, name) ==
  \E i \in DOMAIN params : params[i][1] = Text(name)
ParamsGet(params, name) ==
  LET first == CHOOSE i \in DOMAIN params :
                 /\ params[i][1] = Text(name)
                 /\ \A j \in DOMAIN params : params[j][1] = Text(name) => i <= j
  IN IdOfText(params[first][2])

\* applyURLParameters(): the three change calls are made back to back, none
\* of them awaited.
ApplyURLParameters(W, search) ==
  LET params == ParseSearch(search)
      W1 == IF ParamsHas(params, "color")
            THEN DoChangeColor(W, ParamsGet(params, "color")) ELSE W
      W2 == IF ParamsHas(params, "strap")
            THEN DoChangeStrap(W1, ParamsGet(params, "strap")) ELSE W1
  IN IF ParamsHas(params, "environment")
     THEN DoChangeEnvironment(W2, ParamsGet(params, "environment")) ELSE W2

\* reset(): the three change calls with the configured defaults, back to
\* back, none of them awaited.
DoReset(W) ==
  DoChangeEnvironment(
    DoChangeStrap(DoChangeColor(W, DefaultColor), defaultStrap),
    DefaultEnvironment)

\* --------------------------------------------------------- object identity
\* References to selection-state objects that code outside the engine holds:
\* "live" is engine.currentState itself, "copy" is any object made from it.
GetStateResult == "copy"          \* getState(): { ...this.currentState }
ResetPayload == "live"            \* reset(): notifyListeners('reset', this.currentState)

\* ----------------------------------------------------------------- actions
Commit(W) ==
  /\ ~W.overflow
  /\ currentState' = W.cs
  /\ slots' = W.slots
  /\ textureCache' = W.cache
  /\ createCount' = W.count
  /\ tasks' = W.tasks
  /\ last' = W.last

ColorInputs == Colors \cup {Unknown}
StrapInputs == Straps \cup {Unknown}
EnvironmentInputs == Environments \cup {Unknown}

ChangeColor(id) ==
  /\ Commit(DoChangeColor(World, id))
  /\ ops < MaxOps /\ ops' = ops + 1
  /\ scenario' = NoScenario
  /\ UNCHANGED outside
  /\ UNCHANGED <<defaultStrap, materials, held, failures, fetched, lastGet>>

ChangeStrap(id) ==
  /\ Commit(DoChangeStrap(World, id))
  /\ ops < MaxOps /\ ops' = ops + 1
  /\ scenario' = NoScenario
  /\ UNCHANGED outside
  /\ UNCHANGED <<defaultStrap, materials, held, failures, fetched, lastGet>>

ChangeEnvironment(id) ==
  /\ Commit(DoChangeEnvironment(World, id))
  /\ ops < MaxOps /\ ops' = ops + 1
  /\ scenario' = NoScenario
  /\ UNCHANGED outside
  /\ UNCHANGED <<defaultStrap, materials, held, failures, fetched, lastGet>>

\* The createTexture promise task t awaits settles: resolved (ok) or rejected.
TextureLoaded(t, ok, k) ==
  /\ tasks[t].op \in {"changeColor", "changeStrap"} /\ tasks[t].wait = "load"
  /\ k \in ApplyChoices(tasks[t])
  /\ failures' = failures + Failed(tasks[t], ok, k)
  /\ failures' <= MaxFailures
  /\ LET h == tasks[t].got
         W1 == [World EXCEPT
                  !.cache = CacheAfterLoad(textureCache, tasks[t].url, h, ok),
                  !.tasks[t].loadFailed = (@ \/ ~ok)]
     IN Commit(Continue(W1, t, LoadResult(h, ok), k))
  /\ UNCHANGED outside
  /\ UNCHANGED <<defaultStrap, materials, held, scenario, ops, fetched, lastGet>>

\* Task t resumes after a getTexture that was answered from the cache.
TextureCached(t, k) ==
  /\ tasks[t].op \in {"changeColor", "changeStrap"} /\ tasks[t].wait = "ready"
  /\ k \in ApplyChoices(tasks[t])
  /\ failures' = failures + Failed(tasks[t], TRUE, k)
  /\ failures' <= MaxFailures
  /\ Commit(Continue(World, t, tasks[t].got, k))
  /\ UNCHANGED outside
  /\ UNCHANGED <<defaultStrap, materials, held, scenario, ops, fetched, lastGet>>

\* applyStrapConfiguration found no texture to apply and returned.
StrapWithoutTexture(t) ==
  /\ tasks[t].pc = "strapDone"
  /\ Commit(FinishStrap(World, t))
  /\ UNCHANGED outside
  /\ UNCHANGED <<defaultStrap, materials, held, scenario, failures, ops,
                 fetched, lastGet>>

\* The rejection reaches the catch block of the call.
Catch(t) ==
  /\ tasks[t].pc = "catch"
  /\ Commit(IF tasks[t].op = "changeColor"
            THEN CatchColor(World, t) ELSE Settle(World, t, TRUE))
  /\ UNCHANGED outside
  /\ UNCHANGED <<defaultStrap, materials, held, scenario, failures, ops,
                 fetched, lastGet>>

Reset ==
  /\ ops < MaxOps /\ ops' = ops + 1
  /\ Commit(DoReset(World))
  /\ held' = held \cup {ResetPayload}
  /\ scenario' = [kind |-> "reset", target |-> Defaults,
                  clean |-> (InFlight(tasks) = {})]
  /\ UNCHANGED outside
  /\ UNCHANGED <<defaultStrap, materials, failures, fetched, lastGet>>

\* The page is left for its own share link: a new engine is constructed for
\* the same configuration and model, and applyURLParameters() replays the
\* query of the link.
InitialSlots ==
  [primary |-> Original, secondary |-> Original,
   accent |-> Original, roughness |-> Original]

FreshWorld ==
  [cs |-> Defaults, mats |-> materials, slots |-> InitialSlots,
   cache |-> [u \in Urls |-> Absent], count |-> [u \in Urls |-> 0],
   tasks |-> [i \in TaskIds |-> Idle], last |-> NoCall, overflow |-> FALSE]

OpenShareURL ==
  /\ ops < MaxOps /\ ops' = ops + 1
  /\ Commit(ApplyURLParameters(FreshWorld, GetShareURL(currentState)))
  /\ held' = {}
  /\ scenario' = [kind |-> "url", target |-> currentState, clean |-> TRUE]
  /\ UNCHANGED outside
  /\ UNCHANGED <<defaultStrap, materials, failures, fetched, lastGet>>

\* destroy(): the texture cache is cleared; calls in flight are not stopped.
Destroy ==
  /\ ops < MaxOps /\ ops' = ops + 1
  /\ textureCache' = [u \in Urls |-> Absent]
  /\ tasks' = MarkOverlap(tasks)
  /\ last' = NoCall
  /\ scenario' = NoScenario
  /\ fetched' = [u \in Urls |-> Absent]
  /\ UNCHANGED outside
  /\ UNCHANGED <<currentState, defaultStrap, materials, slots, createCount,
                 failures, held, lastGet>>

\* A caller takes getState().
GetState ==
  /\ held' = held \cup {GetStateResult}
  /\ UNCHANGED outside
  /\ UNCHANGED <<currentState, defaultStrap, materials, slots, textureCache,
                 createCount, failures, ops, tasks, last, scenario, fetched,
                 lastGet>>

\* Outside code assigns the color field of an object it holds.
MutateHeld(ref, id) ==
  /\ ref \in held
  /\ IF ref = "live"
     THEN /\ currentState' = [currentState EXCEPT !.color = id]
          /\ tasks' = MarkOverlap(tasks)
          /\ last' = NoCall
          /\ scenario' = NoScenario
     ELSE UNCHANGED <<currentState, tasks, last, scenario>>
  /\ UNCHANGED outside
  /\ UNCHANGED <<defaultStrap, materials, slots, textureCache, createCount,
                 failures, ops, held, fetched, lastGet>>

\* ------------------------------------------------ start-up: data and helpers
\* config.colors in document order
ColorOrder == <<"red", "sky blue">>

\* The call of XRUpgradeConfigurator.initialize() and of the
\* engine.initialize() it awaits.  options are the embed() options, found is
\* what model.getMaterialByName returns something for, awaited is the task
\* of the applyInitialConfiguration() run that engine.initialize awaits,
\* timer is the 500 ms timer the viewer's load handler arms for a second
\* applyInitialConfiguration() run.
NoInit ==
  [pc |-> "idle", options |-> [responsive |-> TRUE, showUI |-> TRUE],
   found |-> [primary |-> TRUE, secondary |-> TRUE, accent |-> TRUE],
   model |-> "pending", awaited |-> 0, timer |-> FALSE,
   engine |-> "pending", orchestrator |-> "pending",
   enableResponsive |-> "undefined", hideUI |-> FALSE,
   urlApplied |-> FALSE, uiCreated |-> FALSE, resizeListener |-> FALSE,
   subscribed |-> FALSE]

\* The background preload: its 500 ms start timer, the colors in processing
\* order, the index of the color being loaded, the createTexture promises
\* that color still waits for, preloadedCount, and (observation) the colors
\* processed so far and whether a load of the preload was rejected.
NoPreload ==
  [state |-> "off", order |-> <<>>, index |-> 0, pending |-> {},
   count |-> 0, processed |-> <<>>, failed |-> FALSE]

\* The viewer element: created by initialize(), its loaded flag, the
\* transport of the page, and model-viewer's canActivateAR.
ReadyViewer ==
  [created |-> TRUE, loaded |-> TRUE, https |-> TRUE, canActivateAR |-> TRUE]
NoAR ==
  [state |-> "idle", retryCount |-> 0, attempts |-> 0, emitted |-> <<>>,
   failed |-> FALSE, outcome |-> "resolved"]
NoShot == [state |-> "idle"]

\* The page before any widget is shown, any device check is made and any
\* configuration document is handed over.
NoDevice ==
  [ua |-> [android |-> FALSE, chrome |-> FALSE, samsung |-> FALSE,
           iphone |-> FALSE],
   iosUA |-> 0, androidUA |-> 0, macTouch |-> FALSE, xr |-> "absent",
   webkit |-> "none", androidInterface |-> FALSE, https |-> FALSE,
   localhost |-> FALSE]
NoSupport == [called |-> FALSE]
NoConfig == [given |-> FALSE]
NoBinder == [outcome |-> "none"]

\* No call logged; the idle tracker as the engine's constructor leaves it
\* (isIdleRotating false, no viewer yet, no interval timer); no resize
\* listener installed.
NoIdleTracker ==
  [viewer |-> FALSE, loaded |-> FALSE, isIdleRotating |-> FALSE,
   autoRotate |-> FALSE, interval |-> FALSE, now |-> 0,
   lastInteractionTime |-> 0, emitted |-> <<>>, event |-> "-"]
NoLayout ==
  [initialized |-> FALSE, listening |-> FALSE, held |-> "undefined",
   isMobile |-> FALSE, width |-> 1400, mobileUA |-> FALSE, touch |-> FALSE,
   timer |-> FALSE, known |-> "desktop", ui |-> "none", rebuilt |-> 0,
   resizes |-> 0]
\* No listener subscribed and no event dispatched; the service worker's
\* caches empty and no request handled.
NoBus ==
  [list |-> <<>>, atStart |-> <<>>, atEnd |-> <<>>, invoked |-> <<>>,
   threw |-> FALSE, emitted |-> FALSE]
NoWorker ==
  [cached |-> {}, path |-> "-", accept |-> "-", network |-> "-",
   settled |-> "-", value |-> "-", handled |-> FALSE]
AsideIdle ==
  /\ bus = NoBus
  /\ worker = NoWorker
NewerIdle ==
  /\ log = <<>>
  /\ idle = NoIdleTracker
  /\ layout = NoLayout
  /\ AsideIdle

LaterIdle ==
  /\ widgets = NoState
  /\ device = NoDevice
  /\ support = NoSupport
  /\ config = NoConfig
  /\ binder = NoBinder
  /\ NewerIdle

StartupIdle ==
  /\ isReady = FALSE
  /\ notified = <<>>
  /\ init = NoInit
  /\ preload = NoPreload
  /\ viewer = ReadyViewer
  /\ ar = NoAR
  /\ shot = NoShot
  /\ LaterIdle

Init ==
  /\ defaultStrap \in Straps
  /\ currentState = Defaults
  /\ materials \in BOOLEAN
  /\ slots = InitialSlots
  /\ textureCache = [u \in Urls |-> Absent]
  /\ createCount = [u \in Urls |-> 0]
  /\ failures = 0
  /\ ops = 0
  /\ tasks = [i \in TaskIds |-> Idle]
  /\ last = NoCall
  /\ scenario = NoScenario
  /\ held = {}
  /\ fetched = [u \in Urls |-> Absent]
  /\ lastGet = NoGet
  /\ StartupIdle

\* ------------------------------------------- the texture cache on its own
\* getTexture(url) called directly, one call at a time: the next call starts
\* only after the previous one has returned.
RequestTexture(url) ==
  /\ InFlight(tasks) = {}
  /\ ops < MaxOps /\ ops' = ops + 1
  /\ LET t == FirstFree(tasks)
         W1 == [World EXCEPT !.tasks[t] =
                  [Idle EXCEPT !.op = "getTexture", !.arg = url]]
     IN Commit(BeginGet(W1, t, "get", url))
  /\ UNCHANGED outside
  /\ UNCHANGED <<defaultStrap, materials, held, scenario, failures,
                 fetched, lastGet>>

\* getTexture returns h to its caller.
ReturnTexture(t, h) ==
  /\ lastGet' = [url |-> tasks[t].url, first |-> fetched[tasks[t].url],
                 second |-> h, loads |-> tasks[t].loads]
  /\ fetched' = [fetched EXCEPT ![tasks[t].url] = h]
  /\ tasks' = [tasks EXCEPT ![t] = Idle]

GetTextureLoaded(t, ok) ==
  /\ tasks[t].op = "getTexture" /\ tasks[t].wait = "load"
  /\ failures' = failures + (IF ok THEN 0 ELSE 1)
  /\ failures' <= MaxFailures
  /\ textureCache' = CacheAfterLoad(textureCache, tasks[t].url, tasks[t].got, ok)
  /\ ReturnTexture(t, LoadResult(tasks[t].got, ok))
  /\ UNCHANGED outside
  /\ UNCHANGED <<currentState, defaultStrap, materials, slots, createCount,
                 ops, last, scenario, held>>

GetTextureCached(t) ==
  /\ tasks[t].op = "getTexture" /\ tasks[t].wait = "ready"
  /\ ReturnTexture(t, tasks[t].got)
  /\ UNCHANGED outside
  /\ UNCHANGED <<currentState, defaultStrap, materials, slots, textureCache,
                 createCount, failures, ops, last, scenario, held>>

NextCache ==
  \/ \E url \in Urls : RequestTexture(url)
  \/ \E t \in TaskIds, ok \in BOOLEAN : GetTextureLoaded(t, ok)
  \/ \E t \in TaskIds : GetTextureCached(t)
  \/ Destroy

SpecCache == Init /\ [][NextCache]_vars

Next ==
  \/ \E id \in ColorInputs : ChangeColor(id)
  \/ \E id \in StrapInputs : ChangeStrap(id)
  \/ \E id \in EnvironmentInputs : ChangeEnvironment(id)
  \/ \E t \in TaskIds, ok \in BOOLEAN, k \in 0..4 : TextureLoaded(t, ok, k)
  \/ \E t \in TaskIds, k \in 0..4 : TextureCached(t, k)
  \/ \E t \in TaskIds : Catch(t)
  \/ Reset
  \/ OpenShareURL
  \/ Destroy

Spec == Init /\ [][Next]_vars

\* The engine together with outside code that keeps and writes the objects
\* it was handed.  Only here can the current color be a string that is not
\* a configured color, which is what leaves applyStrapConfiguration('selected')
\* without a texture to apply.
NextRefs ==
  \/ Next
  \/ GetState
  \/ \E ref \in {"live", "copy"}, id \in ColorInputs : MutateHeld(ref, id)
  \/ \E t \in TaskIds : StrapWithoutTexture(t)

SpecRefs == Init /\ [][NextRefs]_vars

\* ================================================================ start-up
\* embed(): "if (responsive) configurator.enableResponsive = true" and
\* "if (!showUI) configurator.hideUI = true"; a field that is not assigned
\* stays undefined.
EnableResponsive(responsive) == IF responsive THEN "true" ELSE "undefined"
HideUI(showUI) == ~showUI
\* initialize(): "if (this.enableResponsive !== false)"
WantsResizeListener(flag) == flag # "false"

\* Variant: every outcome of the wait lets initialization go on.
WaitForModelLoadLenient(outcome) == "resolved"
\* waitForModelLoad(): resolved by the viewer's load event, rejected by its
\* error event and by the 30 s timer.
WaitForModelLoad(outcome) == IF outcome = "load" THEN "resolved" ELSE "rejected"

\* setupMaterialReferences(): this.materials is assigned only when all three
\* lookups succeed; otherwise an error is logged and the method returns.
SetupMaterialReferences(found) ==
  found.primary /\ found.secondary /\ found.accent

\* Variant: the colors are preloaded in document order.
PreloadOrderDocument(current) == ColorOrder
\* preloadOrder of startTexturePreloading(): the current color, then the
\* other configured colors in document order.
PreloadOrder(current) ==
  <<current>> \o SelectSeq(ColorOrder, LAMBDA c : c # current)

\* startTexturePreloading(): does nothing when isReady is already set;
\* otherwise sets it, fixes the order and arms the 500 ms timer.
StartTexturePreloading(ready, P, current) ==
  IF ready THEN P
  ELSE [P EXCEPT !.state = "timer", !.order = PreloadOrder(current)]

Progress(loaded) == <<"texturePreloadProgress", loaded, Len(ColorOrder)>>
Complete(loaded) == <<"texturePreloadComplete", loaded, Len(ColorOrder)>>

\* applyStrapConfiguration(this.currentState.strap) of the initial
\* configuration, up to its suspension
BeginInitialStrap(W, t) ==
  LET url == StrapTexture(W.cs.strap, W.cs.color) IN
  IF url = NoUrl THEN [W EXCEPT !.tasks[t] = Idle]
  ELSE BeginGet(W, t, "strap", url)

\* applyInitialConfiguration() up to its first suspension; it returns at
\* once when the materials are not set.
ApplyInitialConfiguration(W) ==
  IF ~W.mats THEN W
  ELSE IF FreeSlots(W.tasks) = {} THEN [W EXCEPT !.overflow = TRUE]
  ELSE LET t == FirstFree(W.tasks)
           W1 == [W EXCEPT !.tasks[t] =
                    [Idle EXCEPT !.op = "applyInitialConfiguration",
                                 !.arg = W.cs.color]]
       IN IF FindColor(W.cs.color)
          THEN BeginGet(W1, t, "primary", ColorTextures(W.cs.color).primary)
          ELSE BeginInitialStrap(W1, t)

\* The task the call above started, 0 when it returned without suspending.
StartedTask(W, W1) ==
  IF \E t \in TaskIds : W.tasks[t].op = "idle" /\ W1.tasks[t].op # "idle"
  THEN FirstFree(W.tasks) ELSE 0

\* An applyInitialConfiguration() run resumes with texture handle h; a
\* setTexture that throws ends the run in its catch block, which only logs.
ContinueInitial(W, t, h, k) ==
  LET task == W.tasks[t] IN
  CASE task.pc = "primary" ->
         BeginGet([W EXCEPT !.tasks[t].tex.primary = h], t, "accent",
                  ColorTextures(task.arg).accent)
    [] task.pc = "accent" ->
         BeginGet([W EXCEPT !.tasks[t].tex.accent = h], t, "roughness",
                  ColorTextures(task.arg).roughness)
    [] task.pc = "roughness" ->
         LET tex == [task.tex EXCEPT !.roughness = h]
             W1 == [W EXCEPT !.slots = ApplyColor(W.slots, tex, k)]
         IN IF k < 4 THEN [W1 EXCEPT !.tasks[t] = Idle]
            ELSE BeginInitialStrap(W1, t)
    [] task.pc = "strap" ->
         IF k < 1 THEN [W EXCEPT !.tasks[t] = Idle]
         ELSE [W EXCEPT !.slots.accent = h, !.tasks[t] = Idle]

\* engine.initialize() after applyInitialConfiguration() has returned, and
\* XRUpgradeConfigurator.initialize() after engine.initialize() has resolved:
\* URL parameters, UI, resize listener, event subscriptions.
FinishInitialize(I) ==
  [I EXCEPT !.pc = "done", !.awaited = 0, !.engine = "resolved",
            !.orchestrator = "resolved", !.urlApplied = TRUE,
            !.uiCreated = ~I.hideUI,
            !.resizeListener = WantsResizeListener(I.enableResponsive),
            !.subscribed = TRUE]

\* The catch blocks of engine.initialize() and of the orchestrator's
\* initialize(): both rethrow.
FailInitialize(I) ==
  [I EXCEPT !.pc = "failed", !.engine = "rejected",
            !.orchestrator = "rejected"]

\* ------------------------------------------------------- start-up: actions
\* XRUpgradeConfigurator.embed(containerId, options) constructs the
\* configurator and calls initialize(), which runs up to the wait for the
\* model.
Embed(responsive, showUI) ==
  /\ init.pc = "idle"
  /\ init' = [init EXCEPT !.pc = "model",
                          !.options = [responsive |-> responsive,
                                       showUI |-> showUI],
                          !.enableResponsive = EnableResponsive(responsive),
                          !.hideUI = HideUI(showUI)]
  /\ UNCHANGED apart
  /\ UNCHANGED <<currentState, defaultStrap, materials, slots, textureCache,
                 createCount, failures, ops, tasks, last, scenario, held,
                 fetched, lastGet, isReady, notified, preload>>

\* The model-viewer library or the container's dimensions do not arrive in
\* time: the wait rejects before a viewer exists.
StartupAborts(what) ==
  /\ init.pc = "model" /\ init.model = "pending"
  /\ init' = [FailInitialize(init) EXCEPT !.model = "none"]
  /\ notified' = IF what = "library"
                 THEN Append(notified, ErrorEvent("network")) ELSE notified
  /\ isReady' = FALSE
  /\ UNCHANGED apart
  /\ UNCHANGED <<currentState, defaultStrap, materials, slots, textureCache,
                 createCount, failures, ops, tasks, last, scenario, held,
                 fetched, lastGet, preload>>

\* The viewer fires load or error, or the 30 s timer of waitForModelLoad
\* fires first.
ModelSettles(outcome) ==
  /\ init.pc = "model" /\ init.model = "pending"
  /\ IF WaitForModelLoad(outcome) = "resolved"
     THEN LET mats == SetupMaterialReferences(init.found)
              P == StartTexturePreloading(isReady, preload, currentState.color)
              W == [World EXCEPT !.mats = mats]
              W1 == ApplyInitialConfiguration(W)
              t == StartedTask(W, W1)
              I == [init EXCEPT !.model = outcome, !.timer = TRUE]
          IN /\ materials' = mats
             /\ preload' = P
             /\ Commit(W1)
             /\ IF t = 0
                THEN /\ init' = FinishInitialize(I)
                     /\ isReady' = TRUE
                     /\ notified' = notified \o <<<<"modelLoaded">>,
                                                  <<"initialized">>>>
                ELSE /\ init' = [I EXCEPT !.pc = "configuring", !.awaited = t]
                     /\ isReady' = TRUE
                     /\ notified' = Append(notified, <<"modelLoaded">>)
     ELSE /\ init' = [FailInitialize(init) EXCEPT !.model = outcome]
          /\ isReady' = FALSE
          /\ notified' = IF outcome = "error"
                         THEN Append(notified, ErrorEvent("webgl"))
                         ELSE notified
          /\ UNCHANGED <<currentState, materials, slots, textureCache,
                         createCount, tasks, last, preload>>
  /\ UNCHANGED apart
  /\ UNCHANGED <<defaultStrap, failures, ops, scenario, held, fetched,
                 lastGet>>

\* The model finishes loading after waitForModelLoad has given up: only the
\* viewer's own load handler runs.
LateLoad ==
  /\ init.pc = "failed" /\ init.model = "timeout"
  /\ init' = [init EXCEPT !.model = "late", !.timer = TRUE]
  /\ notified' = Append(notified, <<"modelLoaded">>)
  /\ UNCHANGED apart
  /\ UNCHANGED <<currentState, defaultStrap, materials, slots, textureCache,
                 createCount, failures, ops, tasks, last, scenario, held,
                 fetched, lastGet, isReady, preload>>

\* Asynchronous activities under way: suspended calls plus the preload loop.
\* MaxTasks bounds how many of them the model lets overlap.
Activities ==
  Cardinality(InFlight(tasks))
  + (IF preload.state \in {"loading", "delay"} THEN 1 ELSE 0)

\* The 500 ms timer of the load handler fires: applyInitialConfiguration()
\* runs once more, awaited by nobody.
InitialConfigurationTimer ==
  /\ init.timer
  /\ materials => Activities < MaxTasks
  /\ init' = [init EXCEPT !.timer = FALSE]
  /\ Commit(ApplyInitialConfiguration(World))
  /\ UNCHANGED apart
  /\ UNCHANGED <<defaultStrap, materials, failures, ops, scenario, held,
                 fetched, lastGet, isReady, notified, preload>>

\* What the end of an applyInitialConfiguration() run means for the caller.
AfterInitialStep(W, t) ==
  /\ Commit(W)
  /\ IF W.tasks[t].op = "idle" /\ init.awaited = t
     THEN /\ init' = FinishInitialize(init)
          /\ isReady' = TRUE
          /\ notified' = Append(notified, <<"initialized">>)
     ELSE UNCHANGED <<init, isReady, notified>>

\* A createTexture promise an applyInitialConfiguration() run awaits settles.
InitialTextureLoaded(t, ok, k) ==
  /\ tasks[t].op = "applyInitialConfiguration" /\ tasks[t].wait = "load"
  /\ k \in ApplyChoices(tasks[t])
  /\ failures' = failures + Failed(tasks[t], ok, k)
  /\ failures' <= MaxFailures
  /\ LET h == tasks[t].got
         W1 == [World EXCEPT
                  !.cache = CacheAfterLoad(textureCache, tasks[t].url, h, ok)]
     IN AfterInitialStep(ContinueInitial(W1, t, LoadResult(h, ok), k), t)
  /\ UNCHANGED apart
  /\ UNCHANGED <<defaultStrap, materials, ops, scenario, held, fetched,
                 lastGet, preload>>

\* An applyInitialConfiguration() run resumes after a cached getTexture.
InitialTextureCached(t, k) ==
  /\ tasks[t].op = "applyInitialConfiguration" /\ tasks[t].wait = "ready"
  /\ k \in ApplyChoices(tasks[t])
  /\ failures' = failures + Failed(tasks[t], TRUE, k)
  /\ failures' <= MaxFailures
  /\ AfterInitialStep(ContinueInitial(World, t, tasks[t].got, k), t)
  /\ UNCHANGED apart
  /\ UNCHANGED <<defaultStrap, materials, ops, scenario, held, fetched,
                 lastGet, preload>>

\* ---------------------------------------------------- start-up: the preload
\* R carries the preload record, the createTexture counters and the event
\* log through the synchronous part of a preload step.
PreloadRun == [p |-> preload, count |-> createCount, notified |-> notified]

\* The loop body after "await this.preloadColorTextures(colorId)":
\* preloadedCount++ and the progress notification; then the 100 ms delay.
ColorDone(R) ==
  [R EXCEPT !.p.count = @ + 1,
            !.p.processed = Append(@, R.p.order[R.p.index]),
            !.p.state = "delay",
            !.notified = Append(@, Progress(R.p.count + 1))]

\* preloadColorTextures(order[i]): three preloadTexture calls at once; each
\* returns the cached handle or calls createTexture.  An id that is no
\* configured color makes the call return at once.
StartColor(R, cache, i) ==
  LET color == R.p.order[i]
      tex == ColorTextures(color)
      urls == IF FindColor(color)
              THEN {tex.primary, tex.accent, tex.roughness} ELSE {}
      miss == {u \in urls : ~CacheHit(cache, u)}
      R1 == [R EXCEPT
               !.p.index = i, !.p.state = "loading",
               !.p.pending = {<<u, R.count[u] + 1>> : u \in miss},
               !.count = [u \in Urls |->
                            IF u \in miss THEN R.count[u] + 1 ELSE R.count[u]]]
  IN IF miss = {} THEN ColorDone(R1) ELSE R1

CommitPreload(R) ==
  /\ preload' = R.p
  /\ createCount' = R.count
  /\ notified' = R.notified

\* The 500 ms timer of startTexturePreloading() fires; the load handler's
\* timer has the same delay and was armed earlier, so it fires first.
PreloadTimer ==
  /\ preload.state = "timer" /\ ~init.timer
  /\ Activities < MaxTasks
  /\ CommitPreload(StartColor(PreloadRun, textureCache, 1))
  /\ UNCHANGED apart
  /\ UNCHANGED <<currentState, defaultStrap, materials, slots, textureCache,
                 failures, ops, tasks, last, scenario, held, fetched, lastGet,
                 isReady, init>>

\* One createTexture promise of the color being preloaded settles; the
\* color is done when the last of them has.
PreloadTextureLoaded(url, ok) ==
  /\ preload.state = "loading"
  /\ \E h \in preload.pending : h[1] = url
  /\ failures' = failures + (IF ok THEN 0 ELSE 1)
  /\ failures' <= MaxFailures
  /\ LET h == CHOOSE x \in preload.pending : x[1] = url
         R == [PreloadRun EXCEPT !.p.pending = @ \ {h},
                                 !.p.failed = (@ \/ ~ok)]
     IN /\ textureCache' = CacheAfterLoad(textureCache, url, h, ok)
        /\ CommitPreload(IF R.p.pending = {} THEN ColorDone(R) ELSE R)
  /\ UNCHANGED apart
  /\ UNCHANGED <<currentState, defaultStrap, materials, slots, ops, tasks,
                 last, scenario, held, fetched, lastGet, isReady, init>>

\* The 100 ms delay ends: the next color, or the end of the loop, which
\* clears isReady and announces completion.
PreloadNext ==
  /\ preload.state = "delay"
  /\ IF preload.index < Len(preload.order)
     THEN /\ CommitPreload(StartColor(PreloadRun, textureCache,
                                      preload.index + 1))
          /\ UNCHANGED isReady
     ELSE /\ preload' = [preload EXCEPT !.state = "complete"]
          /\ notified' = Append(notified, Complete(preload.count))
          /\ isReady' = FALSE
          /\ UNCHANGED createCount
  /\ UNCHANGED apart
  /\ UNCHANGED <<currentState, defaultStrap, materials, slots, textureCache,
                 failures, ops, tasks, last, scenario, held, fetched, lastGet,
                 init>>

\* The engine as constructed for a configuration whose default color is
\* either configured color, on a model that has any subset of the three
\* materials.
InitStartup ==
  /\ defaultStrap \in Straps
  /\ \E c \in Colors : currentState = [Defaults EXCEPT !.color = c]
  /\ materials = FALSE
  /\ slots = InitialSlots
  /\ textureCache = [u \in Urls |-> Absent]
  /\ createCount = [u \in Urls |-> 0]
  /\ failures = 0
  /\ ops = 0
  /\ tasks = [i \in TaskIds |-> Idle]
  /\ last = NoCall
  /\ scenario = NoScenario
  /\ held = {}
  /\ fetched = [u \in Urls |-> Absent]
  /\ lastGet = NoGet
  /\ isReady = FALSE
  /\ notified = <<>>
  /\ preload = NoPreload
  /\ viewer = ReadyViewer
  /\ ar = NoAR
  /\ shot = NoShot
  /\ LaterIdle
  /\ \E p, s, a \in BOOLEAN :
       init = [NoInit EXCEPT !.found = [primary |-> p, secondary |-> s,
                                        accent |-> a]]

NextStartup ==
  \/ \E responsive, showUI \in BOOLEAN : Embed(responsive, showUI)
  \/ \E what \in {"library", "container"} : StartupAborts(what)
  \/ \E outcome \in {"load", "error", "timeout"} : ModelSettles(outcome)
  \/ LateLoad
  \/ InitialConfigurationTimer
  \/ \E t \in TaskIds, ok \in BOOLEAN, k \in 0..4 : InitialTextureLoaded(t, ok, k)
  \/ \E t \in TaskIds, k \in 0..4 : InitialTextureCached(t, k)
  \/ PreloadTimer
  \/ \E url \in Urls, ok \in BOOLEAN : PreloadTextureLoaded(url, ok)
  \/ PreloadNext

SpecStartup == InitStartup /\ [][NextStartup]_vars

\* ====================================================== screenshot and AR
\* The retry limit of tryActivateAR: "retryCount < 3".
RetryLimit == 3

\* The summary of a settled takeScreenshot / activateAR call: the events it
\* emitted, whether it failed, and how the failure left the call: "resolved"
\* (returned normally), "rejected" (the returned promise rejected) or
\* "unhandled" (a promise nobody holds rejected).
Settled(op, emitted, failed, outcome) ==
  [NoCall EXCEPT !.op = op, !.emitted = emitted, !.threw = failed,
                 !.outcome = outcome]

ARDone(A, event, failed, outcome) ==
  [A EXCEPT !.state = "done", !.emitted = Append(@, event),
            !.failed = failed, !.outcome = outcome]

\* Variant: the retry does not pass on an increased retryCount.
TryActivateARUncounted(A, V, n) ==
  IF ~V.canActivateAR
  THEN ARDone(A, ErrorEvent("user"), TRUE, "resolved")
  ELSE [A EXCEPT !.state = "attempting", !.attempts = @ + 1]
\* tryActivateAR(n): an error event when model-viewer cannot activate AR,
\* otherwise modelViewer.activateAR() is called and awaited.
TryActivateAR(A, V, n) ==
  IF ~V.canActivateAR
  THEN ARDone(A, ErrorEvent("user"), TRUE, "resolved")
  ELSE [A EXCEPT !.state = "attempting", !.retryCount = n,
                 !.attempts = @ + 1]

\* activateAR() up to its return.  Without a viewer the first property
\* access throws into the catch block, which emits the error event.
ActivateARBody(V) ==
  LET A == [NoAR EXCEPT !.state = "called"] IN
  IF ~V.created THEN ARDone(A, ErrorEvent("user"), TRUE, "resolved")
  ELSE IF ~V.loaded THEN [A EXCEPT !.state = "waitingLoad"]
  ELSE IF ~V.https THEN ARDone(A, ErrorEvent("user"), TRUE, "resolved")
  ELSE TryActivateAR(A, V, 0)

\* The catch block of tryActivateAR when it does not retry: "throw error"
\* inside an async function whose promise nobody awaits or catches.
ARFailure(A) ==
  [A EXCEPT !.state = "done", !.failed = TRUE, !.outcome = "unhandled"]

\* What the settled call looks like to its caller and to subscribers.
ARSummary(A) ==
  IF A.state = "done"
  THEN Settled("activateAR", A.emitted, A.failed, A.outcome)
  ELSE IF A.state = "waitingLoad"
  THEN Settled("activateAR", <<>>, FALSE, "resolved")
  ELSE NoCall

InteractionFrame ==
  UNCHANGED <<currentState, defaultStrap, materials, slots, textureCache,
              createCount, failures, tasks, scenario, held, fetched, lastGet,
              isReady, notified, init, preload, later, newer>>

ActivateAR ==
  /\ ops < MaxOps /\ ops' = ops + 1
  /\ ar.state \in {"idle", "done"}
  /\ ar' = ActivateARBody(viewer)
  /\ last' = ARSummary(ar')
  /\ UNCHANGED <<viewer, shot>>
  /\ InteractionFrame

\* The viewer's load event: a waiting activateAR() is called again.
ViewerLoads ==
  /\ viewer.created /\ ~viewer.loaded
  /\ viewer' = [viewer EXCEPT !.loaded = TRUE]
  /\ IF ar.state = "waitingLoad"
     THEN /\ ar' = ActivateARBody(viewer')
          /\ last' = ARSummary(ar')
     ELSE UNCHANGED <<ar, last>>
  /\ UNCHANGED <<ops, shot>>
  /\ InteractionFrame

\* modelViewer.activateAR() settles: it resolves, or rejects with a message
\* that mentions 'user gesture', or rejects with another message.
ARSettles(result) ==
  /\ ar.state = "attempting"
  /\ ar' = IF result = "ok"
           THEN ARDone(ar, <<"arActivated">>, FALSE, "resolved")
           ELSE IF result = "gesture" /\ ar.retryCount < RetryLimit
           THEN [ar EXCEPT !.state = "retryTimer"]
           ELSE ARFailure(ar)
  /\ last' = ARSummary(ar')
  /\ UNCHANGED <<viewer, ops, shot>>
  /\ InteractionFrame

\* The 1 s retry timer fires.
ARRetryTimer ==
  /\ ar.state = "retryTimer"
  /\ ar' = TryActivateAR(ar, viewer, ar.retryCount + 1)
  /\ last' = ARSummary(ar')
  /\ UNCHANGED <<viewer, ops, shot>>
  /\ InteractionFrame

\* takeScreenshot()'s catch block: error event, then "throw error".
ScreenshotFailure == "rejected"

\* takeScreenshot() up to the await of modelViewer.toDataURL(); without a
\* viewer the call throws inside the try block.
TakeScreenshot ==
  /\ ops < MaxOps /\ ops' = ops + 1
  /\ shot.state = "idle"
  /\ IF viewer.created
     THEN /\ shot' = [shot EXCEPT !.state = "pending"]
          /\ last' = NoCall
     ELSE /\ last' = Settled("takeScreenshot", <<ErrorEvent("user")>>, TRUE,
                             ScreenshotFailure)
          /\ UNCHANGED shot
  /\ UNCHANGED <<viewer, ar>>
  /\ InteractionFrame

\* modelViewer.toDataURL() settles.
ScreenshotSettles(ok) ==
  /\ shot.state = "pending"
  /\ shot' = [shot EXCEPT !.state = "idle"]
  /\ last' = IF ok
             THEN Settled("takeScreenshot", <<<<"screenshotTaken">>>>, FALSE,
                          "resolved")
             ELSE Settled("takeScreenshot", <<ErrorEvent("user")>>, TRUE,
                          ScreenshotFailure)
  /\ UNCHANGED <<viewer, ar, ops>>
  /\ InteractionFrame

\* An engine on any page: before or after the viewer exists, its model not
\* loaded yet, on secure or insecure transport, with or without AR available.
InitInteract ==
  /\ defaultStrap = "selected"
  /\ currentState = Defaults
  /\ materials = TRUE
  /\ slots = InitialSlots
  /\ textureCache = [u \in Urls |-> Absent]
  /\ createCount = [u \in Urls |-> 0]
  /\ failures = 0
  /\ ops = 0
  /\ tasks = [i \in TaskIds |-> Idle]
  /\ last = NoCall
  /\ scenario = NoScenario
  /\ held = {}
  /\ fetched = [u \in Urls |-> Absent]
  /\ lastGet = NoGet
  /\ isReady = FALSE
  /\ notified = <<>>
  /\ init = NoInit
  /\ preload = NoPreload
  /\ ar = NoAR
  /\ shot = NoShot
  /\ LaterIdle
  /\ \E c, h, a \in BOOLEAN :
       viewer = [created |-> c, loaded |-> FALSE, https |-> h,
                 canActivateAR |-> a]

NextInteract ==
  \/ ActivateAR
  \/ ViewerLoads
  \/ \E result \in {"ok", "gesture", "other"} : ARSettles(result)
  \/ ARRetryTimer
  \/ TakeScreenshot
  \/ \E ok \in BOOLEAN : ScreenshotSettles(ok)

SpecInteract == InitInteract /\ [][NextInteract]_vars

\* ------------------------------------------------- frames of the later parts
\* The engine's own variables and those of start-up and interaction, for the
\* parts below, which leave all of them alone.
engineVars == <<currentState, defaultStrap, materials, slots, textureCache,
                createCount, failures, ops, tasks, last, scenario, held,
                fetched, lastGet>>
startVars == <<isReady, notified, init, preload, viewer, ar, shot>>

\* An engine constructed for the configuration above, its model loaded and
\* its materials found, nothing requested yet.
EngineIdle ==
  /\ defaultStrap = "selected"
  /\ currentState = Defaults
  /\ materials = TRUE
  /\ slots = InitialSlots
  /\ textureCache = [u \in Urls |-> Absent]
  /\ createCount = [u \in Urls |-> 0]
  /\ failures = 0
  /\ ops = 0
  /\ tasks = [i \in TaskIds |-> Idle]
  /\ last = NoCall
  /\ scenario = NoScenario
  /\ held = {}
  /\ fetched = [u \in Urls |-> Absent]
  /\ lastGet = NoGet

StartIdle ==
  /\ isReady = FALSE
  /\ notified = <<>>
  /\ init = NoInit
  /\ preload = NoPreload
  /\ viewer = ReadyViewer
  /\ ar = NoAR
  /\ shot = NoShot

\* --------------------------------------------------------- device detection
\* DeviceDetection reads navigator.userAgent, navigator.platform,
\* navigator.maxTouchPoints, navigator.xr, window.webkit,
\* window.AndroidInterface and location.  A device record holds what those
\* reads find:
\*   ua        which of the words android / chrome / samsung / iphone|ipad|ipod
\*             the lower-cased user agent contains
\*   iosUA     the number /OS (\d+)_/ captures in the user agent, 0: no match
\*   androidUA the number /Android (\d+(\.\d+)?)/ captures, in tenths
\*             (70 is 7.0), 0: no match
\*   macTouch  platform is MacIntel and maxTouchPoints > 1
\*   xr        "absent": no navigator.xr; "bare": navigator.xr without
\*             requestSession; "full": with it
\*   webkit    "none": no window.webkit; "standalone": webkit.standalone only;
\*             "handlers": webkit.messageHandlers without arkit; "arkit": with
\*   https     location.protocol is 'https:'
\*   localhost location.hostname is 'localhost'
MinIOS == 12
MinAndroid == 70

Devices ==
  {d \in [ua : [android : BOOLEAN, chrome : BOOLEAN, samsung : BOOLEAN,
                iphone : BOOLEAN],
          iosUA : {0, 11, 12}, androidUA : {0, 60, 70},
          macTouch : BOOLEAN, xr : {"absent", "bare", "full"},
          webkit : {"none", "standalone", "handlers", "arkit"},
          androidInterface : BOOLEAN, https : BOOLEAN, localhost : BOOLEAN] :
     /\ d.androidUA # 0 => d.ua.android
     /\ d.iosUA # 0 => d.ua.iphone}

\* isiOS()
IsiOS(d) == d.ua.iphone \/ d.macTouch
\* isAndroid()
IsAndroid(d) == d.ua.android /\ ~d.ua.chrome
\* 'xr' in navigator
XrInNavigator(d) == d.xr # "absent"

\* getIOSVersion()
GetIOSVersion(d) ==
  IF ~IsiOS(d) THEN 0
  ELSE IF d.iosUA # 0 THEN d.iosUA
  ELSE IF d.webkit \in {"handlers", "arkit"} THEN 12
  ELSE IF d.webkit = "standalone" THEN 11
  ELSE IF XrInNavigator(d) THEN 12
  ELSE 0

\* getAndroidVersion(), in tenths
GetAndroidVersion(d) ==
  IF ~IsAndroid(d) THEN 0
  ELSE IF d.androidUA # 0 THEN d.androidUA
  ELSE IF XrInNavigator(d) THEN 70
  ELSE IF d.androidInterface THEN 70
  ELSE 0

\* hasARCore()
HasARCore(d) ==
  /\ IsAndroid(d)
  /\ GetAndroidVersion(d) >= MinAndroid
  /\ (d.ua.chrome \/ d.ua.samsung)

\* hasARKit(): the truthiness of what it returns
HasARKit(d) ==
  /\ IsiOS(d)
  /\ GetIOSVersion(d) >= MinIOS
  /\ (XrInNavigator(d) \/ d.webkit = "arkit")

\* getARMode()
GetARMode(d) ==
  IF IsiOS(d) THEN "quick-look"
  ELSE IF IsAndroid(d) THEN "scene-viewer"
  ELSE IF XrInNavigator(d) THEN "webxr"
  ELSE "null"

\* getCapabilities(): the fields checkARSupport reads
GetCapabilities(d) ==
  [isiOS |-> IsiOS(d), isAndroid |-> IsAndroid(d),
   isHTTPS |-> (d.https \/ d.localhost),
   hasWebXR |-> (d.xr = "full"),
   hasARCore |-> HasARCore(d), hasARKit |-> HasARKit(d),
   iosVersion |-> GetIOSVersion(d), androidVersion |-> GetAndroidVersion(d)]

\* Variant: the transport is not looked at.
CheckARSupportAnyTransport(d) ==
  LET capabilities == GetCapabilities(d)
      result == [called |-> TRUE, supported |-> FALSE, mode |-> "null",
                 reason |-> "null", capabilities |-> capabilities]
  IN IF capabilities.hasWebXR \/ capabilities.hasARCore \/ capabilities.hasARKit
     THEN [result EXCEPT !.supported = TRUE, !.mode = GetARMode(d)]
     ELSE [result EXCEPT
             !.reason = "AR not supported by this browser or device"]
\* checkARSupport(): the object its promise resolves to
CheckARSupport(d) ==
  LET capabilities == GetCapabilities(d)
      result == [called |-> TRUE, supported |-> FALSE, mode |-> "null",
                 reason |-> "null", capabilities |-> capabilities]
  IN IF ~capabilities.isHTTPS
     THEN [result EXCEPT !.reason = "AR requires HTTPS connection"]
     ELSE IF ~capabilities.isiOS /\ ~capabilities.isAndroid
     THEN [result EXCEPT
             !.reason = "AR is only supported on iOS and Android devices"]
     ELSE IF capabilities.isiOS /\ capabilities.iosVersion < MinIOS
     THEN [result EXCEPT !.reason = "AR requires iOS 12 or later"]
     ELSE IF capabilities.isAndroid /\ capabilities.androidVersion < MinAndroid
     THEN [result EXCEPT !.reason = "AR requires Android 7.0 or later"]
     ELSE IF capabilities.hasWebXR \/ capabilities.hasARCore
             \/ capabilities.hasARKit
     THEN [result EXCEPT !.supported = TRUE, !.mode = GetARMode(d)]
     ELSE [result EXCEPT
             !.reason = "AR not supported by this browser or device"]

\* The page calls DeviceDetection.checkARSupport().
CallCheckARSupport ==
  /\ support' = CheckARSupport(device)
  /\ UNCHANGED <<engineVars, startVars, widgets, device, config, binder,
                 newer>>

InitDevice ==
  /\ EngineIdle
  /\ StartIdle
  /\ widgets = NoState
  /\ config = NoConfig
  /\ binder = NoBinder
  /\ NewerIdle
  /\ device \in Devices
  /\ support = NoSupport

NextDevice == CallCheckARSupport

SpecDevice == InitDevice /\ [][NextDevice]_vars

\* ------------------------------------------------- configuration documents
\* A configuration document as the constructor of XRUpgradeConfigurator
\* receives it.  shape says what is wrong with its required parts, if
\* anything: one of the four required fields is absent, product.model.path
\* is absent, or a color lacks textures.primary / textures.accent.  colors,
\* straps and environments are the identifiers of the collections in
\* document order; "undefined" stands for a field that is not there
\* (config.defaults?.color is undefined when config.defaults is not there).
Undefined == "undefined"
Shapes ==
  {"ok", "noProduct", "noColors", "noStraps", "noEnvironments",
   "noModelPath", "noTextures"}
Configs ==
  [given : {TRUE}, shape : Shapes,
   colors : {<<>>, <<"red", "sky blue">>},
   straps : {<<>>, <<"selected", "orange">>},
   environments : {<<>>, <<"studio", "b&w">>},
   defaultColor : {Undefined, "red", Unknown},
   defaultStrap : {Undefined, "orange", Unknown},
   defaultEnvironment : {Undefined, "studio", Unknown},
   defaults : [color : {Undefined, "sky blue", Unknown},
               strap : {Undefined, "selected", Unknown},
               environment : {Undefined, "b&w", Unknown}]]

Ids(collection) == {collection[i] : i \in DOMAIN collection}
Truthy(v) == v # Undefined
\* a || b || c
Or3(a, b, c) == IF Truthy(a) THEN a ELSE IF Truthy(b) THEN b ELSE c
\* collection[0]?.id
FirstId(collection) == IF collection = <<>> THEN Undefined ELSE collection[1]

\* validateConfiguration(config): "ok" when it returns, the message of the
\* Error it throws otherwise.
ValidateConfiguration(c) ==
  IF c.shape = "noProduct" THEN "Missing required field: product"
  ELSE IF c.shape = "noColors" THEN "Missing required field: colors"
  ELSE IF c.shape = "noStraps" THEN "Missing required field: straps"
  ELSE IF c.shape = "noEnvironments"
  THEN "Missing required field: environments"
  ELSE IF c.shape = "noModelPath" THEN "Product model path is required"
  ELSE IF c.shape = "noTextures" /\ c.colors # <<>>
  THEN "Color missing required textures"
  ELSE IF Truthy(c.defaultColor) /\ c.defaultColor \notin Ids(c.colors)
  THEN "Default color not found in colors array"
  ELSE IF Truthy(c.defaultStrap) /\ c.defaultStrap \notin Ids(c.straps)
  THEN "Default strap not found in straps array"
  ELSE IF Truthy(c.defaultEnvironment)
          /\ c.defaultEnvironment \notin Ids(c.environments)
  THEN "Default environment not found in environments array"
  ELSE "ok"

\* The initial selection state the ConfiguratorEngine constructor builds.
InitialState(c) ==
  [color |-> Or3(c.defaultColor, c.defaults.color, FirstId(c.colors)),
   strap |-> Or3(c.defaultStrap, c.defaults.strap, FirstId(c.straps)),
   environment |-> Or3(c.defaultEnvironment, c.defaults.environment,
                       FirstId(c.environments))]

\* The constructors of ColorPicker, StrapSelector and EnvironmentSelector
\* read config.colors[0].id (and its like) without a guard: a TypeError when
\* no default is configured and the collection is empty.
WidgetsThrow(c) ==
  \/ ~Truthy(c.defaultColor) /\ c.colors = <<>>
  \/ ~Truthy(c.defaultStrap) /\ c.straps = <<>>
  \/ ~Truthy(c.defaultEnvironment) /\ c.environments = <<>>
InitialWidgets(c) ==
  [color |-> IF Truthy(c.defaultColor) THEN c.defaultColor
             ELSE FirstId(c.colors),
   strap |-> IF Truthy(c.defaultStrap) THEN c.defaultStrap
             ELSE FirstId(c.straps),
   environment |-> IF Truthy(c.defaultEnvironment) THEN c.defaultEnvironment
                   ELSE FirstId(c.environments)]

\* new XRUpgradeConfigurator(config): validation, the engine, the widgets.
Construct ==
  /\ binder.outcome = "none"
  /\ LET verdict == ValidateConfiguration(config) IN
     IF verdict # "ok"
     THEN /\ binder' = [outcome |-> "rejected", error |-> verdict]
          /\ UNCHANGED <<currentState, widgets, defaultStrap>>
     ELSE IF WidgetsThrow(config)
     THEN /\ binder' = [outcome |-> "threw", error |-> "TypeError"]
          /\ UNCHANGED <<currentState, widgets, defaultStrap>>
     ELSE /\ binder' = [outcome |-> "constructed", error |-> "none"]
          /\ currentState' = InitialState(config)
          /\ widgets' = InitialWidgets(config)
          /\ defaultStrap' = config.defaultStrap
  /\ UNCHANGED <<materials, slots, textureCache, createCount, failures, ops,
                 tasks, last, scenario, held, fetched, lastGet>>
  /\ UNCHANGED <<startVars, device, support, config, newer>>

\* No engine exists before the constructor has run.
InitConfig ==
  /\ defaultStrap = Undefined
  /\ currentState = NoState
  /\ materials = FALSE
  /\ slots = InitialSlots
  /\ textureCache = [u \in Urls |-> Absent]
  /\ createCount = [u \in Urls |-> 0]
  /\ failures = 0
  /\ ops = 0
  /\ tasks = [i \in TaskIds |-> Idle]
  /\ last = NoCall
  /\ scenario = NoScenario
  /\ held = {}
  /\ fetched = [u \in Urls |-> Absent]
  /\ lastGet = NoGet
  /\ StartIdle
  /\ widgets = NoState
  /\ device = NoDevice
  /\ support = NoSupport
  /\ config \in Configs
  /\ binder = NoBinder
  /\ NewerIdle

NextConfig == Construct

SpecConfig == InitConfig /\ [][NextConfig]_vars

\* ------------------------------------------------------------ the UI widgets
\* After XRUpgradeConfigurator.initialize(): the three widgets are rendered
\* and registered in components, and the orchestrator has subscribed to the
\* engine's events.  widgets holds ColorPicker.currentColor,
\* StrapSelector.currentStrap and EnvironmentSelector.currentEnvironment.
\* U is the engine record W together with the widgets' fields ui.
Screen == [W |-> World, ui |-> widgets]

\* ColorPicker.selectColor(colorId), also reached through setColor():
\* nothing when the picker already shows colorId, otherwise the picker
\* takes it and calls back engine.changeColor(colorId).
SelectColor(U, id) ==
  IF id = U.ui.color THEN U
  ELSE [W |-> DoChangeColor(U.W, id), ui |-> [U.ui EXCEPT !.color = id]]

\* StrapSelector.selectStrap(strapId), also reached through setStrap()
SelectStrap(U, id) ==
  IF id = U.ui.strap THEN U
  ELSE [W |-> DoChangeStrap(U.W, id), ui |-> [U.ui EXCEPT !.strap = id]]

\* EnvironmentSelector.selectEnvironment(id), also reached through
\* setEnvironment()
SelectEnvironment(U, id) ==
  IF id = U.ui.environment THEN U
  ELSE [W |-> DoChangeEnvironment(U.W, id),
        ui |-> [U.ui EXCEPT !.environment = id]]

\* The strap a call announced with 'strapChanged' in the step that took the
\* engine from W0 to W1 by resuming task t; "none" when it announced none.
Announced(W0, W1, t) ==
  IF W0.tasks[t].op # "idle" /\ W1.tasks[t].op = "idle" /\ ~W1.last.threw
  THEN W1.last.emitted[Len(W1.last.emitted)][2]
  ELSE "none"

\* The orchestrator's 'strapChanged' subscription: strapSelector.setStrap(id).
\* The 'colorChanged' and 'environmentChanged' subscriptions are empty.
StrapChangedListener(U, id) ==
  IF id = "none" THEN U ELSE SelectStrap(U, id)

UICommit(U) ==
  /\ Commit(U.W)
  /\ widgets' = U.ui

UIFrame ==
  UNCHANGED <<defaultStrap, materials, fetched, lastGet, startVars, device,
              support, config, binder, newer>>

\* The user clicks an option of a widget; only configured options are shown.
ClickColor(id) ==
  /\ ops < MaxOps /\ ops' = ops + 1
  /\ UICommit(SelectColor(Screen, id))
  /\ UNCHANGED <<failures, held, scenario>>
  /\ UIFrame

ClickStrap(id) ==
  /\ ops < MaxOps /\ ops' = ops + 1
  /\ UICommit(SelectStrap(Screen, id))
  /\ UNCHANGED <<failures, held, scenario>>
  /\ UIFrame

ClickEnvironment(id) ==
  /\ ops < MaxOps /\ ops' = ops + 1
  /\ UICommit(SelectEnvironment(Screen, id))
  /\ UNCHANGED <<failures, held, scenario>>
  /\ UIFrame

\* XRUpgradeConfigurator.changeColor(colorId): the engine call, then
\* colorPicker.setColor(colorId).
PublicChangeColor(id) ==
  /\ ops < MaxOps /\ ops' = ops + 1
  /\ UICommit(SelectColor([Screen EXCEPT !.W = DoChangeColor(World, id)], id))
  /\ UNCHANGED <<failures, held, scenario>>
  /\ UIFrame

\* XRUpgradeConfigurator.changeStrap(strapId)
PublicChangeStrap(id) ==
  /\ ops < MaxOps /\ ops' = ops + 1
  /\ UICommit(SelectStrap([Screen EXCEPT !.W = DoChangeStrap(World, id)], id))
  /\ UNCHANGED <<failures, held, scenario>>
  /\ UIFrame

\* XRUpgradeConfigurator.changeEnvironment(environmentId)
PublicChangeEnvironment(id) ==
  /\ ops < MaxOps /\ ops' = ops + 1
  /\ UICommit(SelectEnvironment(
                [Screen EXCEPT !.W = DoChangeEnvironment(World, id)], id))
  /\ UNCHANGED <<failures, held, scenario>>
  /\ UIFrame

\* XRUpgradeConfigurator.reset(): engine.reset(), then the three widgets are
\* set from engine.getState().
PublicReset ==
  /\ ops < MaxOps /\ ops' = ops + 1
  /\ LET W1 == DoReset(World)
         U1 == SelectColor([Screen EXCEPT !.W = W1], W1.cs.color)
         U2 == SelectStrap(U1, U1.W.cs.strap)
     IN UICommit(SelectEnvironment(U2, U2.W.cs.environment))
  /\ held' = held \cup {ResetPayload}
  /\ UNCHANGED <<failures, scenario>>
  /\ UIFrame

\* The engine's resumptions, each followed by the subscriptions it triggers.
UITextureLoaded(t, ok, k) ==
  /\ tasks[t].op \in {"changeColor", "changeStrap"} /\ tasks[t].wait = "load"
  /\ k \in ApplyChoices(tasks[t])
  /\ failures' = failures + Failed(tasks[t], ok, k)
  /\ failures' <= MaxFailures
  /\ LET h == tasks[t].got
         W1 == [World EXCEPT
                  !.cache = CacheAfterLoad(textureCache, tasks[t].url, h, ok),
                  !.tasks[t].loadFailed = (@ \/ ~ok)]
         W2 == Continue(W1, t, LoadResult(h, ok), k)
     IN UICommit(StrapChangedListener([Screen EXCEPT !.W = W2],
                                      Announced(World, W2, t)))
  /\ UNCHANGED <<ops, held, scenario>>
  /\ UIFrame

UITextureCached(t, k) ==
  /\ tasks[t].op \in {"changeColor", "changeStrap"} /\ tasks[t].wait = "ready"
  /\ k \in ApplyChoices(tasks[t])
  /\ failures' = failures + Failed(tasks[t], TRUE, k)
  /\ failures' <= MaxFailures
  /\ LET W2 == Continue(World, t, tasks[t].got, k)
     IN UICommit(StrapChangedListener([Screen EXCEPT !.W = W2],
                                      Announced(World, W2, t)))
  /\ UNCHANGED <<ops, held, scenario>>
  /\ UIFrame

\* (Without outside writes to the state object every strap of the
\* configuration has a texture to apply, so no call is ever suspended at
\* "strapDone" here.)
UICatch(t) ==
  /\ tasks[t].pc = "catch"
  /\ UICommit([Screen EXCEPT !.W = IF tasks[t].op = "changeColor"
                                   THEN CatchColor(World, t)
                                   ELSE Settle(World, t, TRUE)])
  /\ UNCHANGED <<ops, failures, held, scenario>>
  /\ UIFrame

\* The configurator after start-up: syncUIWithEngineState() has set the
\* widgets from the engine's state; the materials were found or not.
InitUI ==
  /\ defaultStrap \in Straps
  /\ currentState = Defaults
  /\ materials \in BOOLEAN
  /\ slots = InitialSlots
  /\ textureCache = [u \in Urls |-> Absent]
  /\ createCount = [u \in Urls |-> 0]
  /\ failures = 0
  /\ ops = 0
  /\ tasks = [i \in TaskIds |-> Idle]
  /\ last = NoCall
  /\ scenario = NoScenario
  /\ held = {}
  /\ fetched = [u \in Urls |-> Absent]
  /\ lastGet = NoGet
  /\ StartIdle
  /\ widgets = currentState
  /\ device = NoDevice
  /\ support = NoSupport
  /\ config = NoConfig
  /\ binder = NoBinder
  /\ NewerIdle

NextUI ==
  \/ \E id \in Colors : ClickColor(id)
  \/ \E id \in Straps : ClickStrap(id)
  \/ \E id \in Environments : ClickEnvironment(id)
  \/ \E id \in ColorInputs : PublicChangeColor(id)
  \/ \E id \in StrapInputs : PublicChangeStrap(id)
  \/ \E id \in EnvironmentInputs : PublicChangeEnvironment(id)
  \/ PublicReset
  \/ \E t \in TaskIds, ok \in BOOLEAN, k \in 0..4 : UITextureLoaded(t, ok, k)
  \/ \E t \in TaskIds, k \in 0..4 : UITextureCached(t, k)
  \/ \E t \in TaskIds : UICatch(t)

SpecUI == InitUI /\ [][NextUI]_vars

\* ------------------------------------------------- the order within a call
\* log lists what changeColor calls do, statement by statement in source
\* order: <<t, "call", op, id>> the call made (t: its task, 0 when it returns
\* at once), <<t, "state", field, id>> an assignment to currentState,
\* <<t, "emit", event, payload>> a notifyListeners call, <<t, "load", url, "-">>
\* a modelViewer.createTexture(url) call, <<t, "write", slot, url>> a
\* setTexture call that returned, <<t, "settle", how, "-">> the return.
TraceGet(W, t, url) ==
  IF CacheHit(W.cache, url) THEN <<>> ELSE << <<t, "load", url, "-">> >>

\* Variant: the first texture is requested before the state is updated and
\* the event emitted.
TraceChangeColorLate(W, id) ==
  IF ~FindColor(id)
  THEN << <<0, "call", "changeColor", id>>, <<0, "settle", "ok", "-">> >>
  ELSE IF FreeSlots(W.tasks) = {} THEN <<>>
  ELSE LET t == FirstFree(W.tasks) IN
       << <<t, "call", "changeColor", id>> >>
       \o (IF W.mats THEN TraceGet(W, t, ColorTextures(id).primary) ELSE <<>>)
       \o << <<t, "state", "color", id>>,
             <<t, "emit", "colorChanged", id>> >>
\* changeColor(colorId) up to its first suspension
TraceChangeColor(W, id) ==
  IF ~FindColor(id)
  THEN << <<0, "call", "changeColor", id>>, <<0, "settle", "ok", "-">> >>
  ELSE IF FreeSlots(W.tasks) = {} THEN <<>>
  ELSE LET t == FirstFree(W.tasks) IN
       << <<t, "call", "changeColor", id>>,
          <<t, "state", "color", id>>,
          <<t, "emit", "colorChanged", id>> >>
       \o (IF W.mats THEN TraceGet(W, t, ColorTextures(id).primary) ELSE <<>>)

\* The four setTexture calls of applyColorTextures with the handles tex.
TraceApplyColor(t, tex) ==
  << <<t, "write", "primary", tex.primary[1]>>,
     <<t, "write", "secondary", tex.accent[1]>>,
     <<t, "write", "accent", tex.accent[1]>>,
     <<t, "write", "roughness", tex.roughness[1]>> >>

\* A changeColor task t resumes with handle h; k setTexture calls succeed.
TraceContinue(W, t, h, k) ==
  LET task == W.tasks[t] IN
  CASE task.pc = "primary" ->
         TraceGet(W, t, ColorTextures(task.arg).accent)
    [] task.pc = "accent" ->
         TraceGet(W, t, ColorTextures(task.arg).roughness)
    [] task.pc = "roughness" ->
         SubSeq(TraceApplyColor(t, [task.tex EXCEPT !.roughness = h]), 1, k)
         \o (IF k < 4 THEN <<>>
             ELSE << <<t, "state", "strap", ForcedStrap>> >>
                  \o (IF StrapTexture(ForcedStrap, W.cs.color) = NoUrl
                      THEN <<>>
                      ELSE TraceGet(W, t, StrapTexture(ForcedStrap,
                                                       W.cs.color))))
    [] task.pc = "strap" ->
         IF k < 1 THEN <<>>
         ELSE << <<t, "write", "accent", h[1]>>,
                 <<t, "emit", "strapChanged", ForcedStrap>>,
                 <<t, "settle", "ok", "-">> >>

\* The catch block of changeColor
TraceCatch(W, t) ==
  << <<t, "state", "color", RollbackColor(W.tasks[t])>>,
     <<t, "emit", "colorChanged", RollbackColor(W.tasks[t])>>,
     <<t, "emit", "error", "user">>,
     <<t, "settle", "threw", "-">> >>

TraceFrame ==
  UNCHANGED <<defaultStrap, materials, held, fetched, lastGet, startVars,
              later, idle, layout, aside>>

LoggedChangeColor(id) ==
  /\ ops < MaxOps /\ ops' = ops + 1
  /\ Commit(DoChangeColor(World, id))
  /\ log' = log \o TraceChangeColor(World, id)
  /\ scenario' = NoScenario
  /\ UNCHANGED failures
  /\ TraceFrame

LoggedTextureLoaded(t, ok, k) ==
  /\ tasks[t].op = "changeColor" /\ tasks[t].wait = "load"
  /\ k \in ApplyChoices(tasks[t])
  /\ failures' = failures + Failed(tasks[t], ok, k)
  /\ failures' <= MaxFailures
  /\ LET h == tasks[t].got
         W1 == [World EXCEPT
                  !.cache = CacheAfterLoad(textureCache, tasks[t].url, h, ok),
                  !.tasks[t].loadFailed = (@ \/ ~ok)]
     IN /\ Commit(Continue(W1, t, LoadResult(h, ok), k))
        /\ log' = log \o TraceContinue(W1, t, LoadResult(h, ok), k)
  /\ UNCHANGED <<scenario, ops>>
  /\ TraceFrame

LoggedTextureCached(t, k) ==
  /\ tasks[t].op = "changeColor" /\ tasks[t].wait = "ready"
  /\ k \in ApplyChoices(tasks[t])
  /\ failures' = failures + Failed(tasks[t], TRUE, k)
  /\ failures' <= MaxFailures
  /\ Commit(Continue(World, t, tasks[t].got, k))
  /\ log' = log \o TraceContinue(World, t, tasks[t].got, k)
  /\ UNCHANGED <<scenario, ops>>
  /\ TraceFrame

LoggedCatch(t) ==
  /\ tasks[t].op = "changeColor" /\ tasks[t].pc = "catch"
  /\ Commit(CatchColor(World, t))
  /\ log' = log \o TraceCatch(World, t)
  /\ UNCHANGED <<scenario, ops, failures>>
  /\ TraceFrame

\* An engine whose model has loaded, with or without its materials found.
InitTrace ==
  /\ defaultStrap \in Straps
  /\ currentState = Defaults
  /\ materials \in BOOLEAN
  /\ slots = InitialSlots
  /\ textureCache = [u \in Urls |-> Absent]
  /\ createCount = [u \in Urls |-> 0]
  /\ failures = 0
  /\ ops = 0
  /\ tasks = [i \in TaskIds |-> Idle]
  /\ last = NoCall
  /\ scenario = NoScenario
  /\ held = {}
  /\ fetched = [u \in Urls |-> Absent]
  /\ lastGet = NoGet
  /\ StartIdle
  /\ LaterIdle

NextTrace ==
  \/ \E id \in ColorInputs : LoggedChangeColor(id)
  \/ \E t \in TaskIds, ok \in BOOLEAN, k \in 0..4 :
       LoggedTextureLoaded(t, ok, k)
  \/ \E t \in TaskIds, k \in 0..4 : LoggedTextureCached(t, k)
  \/ \E t \in TaskIds : LoggedCatch(t)

SpecTrace == InitTrace /\ [][NextTrace]_vars

\* ------------------------------------------- after the initial configuration
\* The engine once initialize() has applied the initial configuration with
\* every load and every setTexture succeeding: the slots hold the textures
\* of the default color and of the default strap, each loaded once.
InitialUrls ==
  {ColorTextures(DefaultColor).primary, ColorTextures(DefaultColor).accent,
   ColorTextures(DefaultColor).roughness,
   StrapTexture(defaultStrap, DefaultColor)}

InitSequential ==
  /\ defaultStrap \in Straps
  /\ currentState = Defaults
  /\ materials = TRUE
  /\ slots = [primary |-> <<ColorTextures(DefaultColor).primary, 1>>,
              secondary |-> <<ColorTextures(DefaultColor).accent, 1>>,
              accent |-> <<StrapTexture(defaultStrap, DefaultColor), 1>>,
              roughness |-> <<ColorTextures(DefaultColor).roughness, 1>>]
  /\ textureCache = [u \in Urls |-> IF u \in InitialUrls THEN <<u, 1>>
                                    ELSE Absent]
  /\ createCount = [u \in Urls |-> IF u \in InitialUrls THEN 1 ELSE 0]
  /\ failures = 0
  /\ ops = 0
  /\ tasks = [i \in TaskIds |-> Idle]
  /\ last = NoCall
  /\ scenario = NoScenario
  /\ held = {}
  /\ fetched = [u \in Urls |-> Absent]
  /\ lastGet = NoGet
  /\ StartupIdle

\* A call from the page and the settling of a createTexture promise are
\* tasks of the event loop; the continuation of an await on a getTexture
\* that was answered from the cache is a microtask.  The microtasks a task
\* queues run in the order they were queued, and all of them run before the
\* next task starts.

\* The setTexture calls that throw during one task: none, or those task t
\* makes after the await at pc, of which k return.
NoThrow == [t |-> 0, pc |-> "-", k |-> 0]
Throws ==
  {NoThrow} \cup [t : TaskIds, pc : {"roughness"}, k : 0..3]
            \cup [t : TaskIds, pc : {"strap"}, k : {0}]

ReadyTasks(W) == {t \in TaskIds : W.tasks[t].wait = "ready"}

\* The calls of one task take the free slots in increasing order, so their
\* continuations are queued in increasing order.
RECURSIVE Queued(_)
Queued(S) ==
  IF S = {} THEN <<>>
  ELSE LET t == CHOOSE i \in S : \A j \in S : i <= j
       IN <<t>> \o Queued(S \ {t})

RECURSIVE RunMicrotasksDepthFirst(_, _, _)
RECURSIVE RunMicrotasks(_, _, _)
\* Variant: a call runs on past its awaits before the next call resumes.
RunMicrotasksDepthFirst(R, queue, bad) ==
  IF queue = <<>> THEN R
  ELSE LET t == Head(queue)
           W == R.world
           hit == bad.t = t /\ bad.pc = W.tasks[t].pc
           W1 == Continue(W, t, W.tasks[t].got, IF hit THEN bad.k ELSE 4)
           R1 == [world |-> W1, threw |-> R.threw + (IF hit THEN 1 ELSE 0)]
       IN RunMicrotasksDepthFirst(R1,
                                  IF W1.tasks[t].wait = "ready"
                                  THEN queue ELSE Tail(queue),
                                  bad)
\* The microtasks of one task, first queued first run; a continuation that
\* awaits another cached texture goes to the back of the queue.
RunMicrotasks(R, queue, bad) ==
  IF queue = <<>> THEN R
  ELSE LET t == Head(queue)
           W == R.world
           hit == bad.t = t /\ bad.pc = W.tasks[t].pc
           W1 == Continue(W, t, W.tasks[t].got, IF hit THEN bad.k ELSE 4)
           R1 == [world |-> W1, threw |-> R.threw + (IF hit THEN 1 ELSE 0)]
       IN RunMicrotasks(R1,
                        IF W1.tasks[t].wait = "ready"
                        THEN Tail(queue) \o <<t>> ELSE Tail(queue),
                        bad)

\* The engine when the task that left it as W has run its microtasks.
RunTask(W, bad) ==
  RunMicrotasks([world |-> W, threw |-> 0], Queued(ReadyTasks(W)), bad)

TaskCommit(R, bad) ==
  /\ Commit(R.world)
  /\ bad = NoThrow \/ R.threw > 0
  /\ failures' = failures + R.threw
  /\ failures' <= MaxFailures

\* The calls made so far, each with whether it began with nothing in flight.
Called(op) ==
  Append(log, <<0, "call", op,
                IF InFlight(tasks) = {} THEN "alone" ELSE "overlapping">>)

TaskFrame ==
  UNCHANGED <<isReady, notified, init, preload, viewer, ar, shot, later,
              idle, layout, aside, defaultStrap, materials, fetched,
              lastGet>>

TaskChangeColor(id, bad) ==
  /\ TaskCommit(RunTask(DoChangeColor(World, id), bad), bad)
  /\ ops < MaxOps /\ ops' = ops + 1
  /\ scenario' = NoScenario
  /\ log' = Called("changeColor")
  /\ UNCHANGED held
  /\ TaskFrame

TaskChangeStrap(id, bad) ==
  /\ TaskCommit(RunTask(DoChangeStrap(World, id), bad), bad)
  /\ ops < MaxOps /\ ops' = ops + 1
  /\ scenario' = NoScenario
  /\ log' = Called("changeStrap")
  /\ UNCHANGED held
  /\ TaskFrame

TaskReset(bad) ==
  /\ TaskCommit(RunTask(DoReset(World), bad), bad)
  /\ ops < MaxOps /\ ops' = ops + 1
  /\ held' = held \cup {ResetPayload}
  /\ scenario' = [kind |-> "reset", target |-> Defaults,
                  clean |-> (InFlight(tasks) = {})]
  /\ log' = Called("reset")
  /\ TaskFrame

\* The createTexture promise task t awaits settles, and t runs on from it.
TaskTextureLoaded(t, ok, bad) ==
  /\ tasks[t].op \in {"changeColor", "changeStrap"} /\ tasks[t].wait = "load"
  /\ LET h == tasks[t].got
         W1 == [World EXCEPT
                  !.cache = CacheAfterLoad(textureCache, tasks[t].url, h, ok),
                  !.tasks[t].loadFailed = (@ \/ ~ok),
                  !.tasks[t].got = LoadResult(h, ok),
                  !.tasks[t].wait = "ready"]
         R == RunTask(W1, bad)
     IN TaskCommit([R EXCEPT !.threw = @ + (IF ok THEN 0 ELSE 1)], bad)
  /\ UNCHANGED outside
  /\ UNCHANGED <<defaultStrap, materials, held, scenario, ops, fetched, lastGet>>

NextSequential ==
  \/ \E id \in ColorInputs, bad \in Throws : TaskChangeColor(id, bad)
  \/ \E id \in StrapInputs, bad \in Throws : TaskChangeStrap(id, bad)
  \/ \E id \in EnvironmentInputs : ChangeEnvironment(id)
  \/ \E bad \in Throws : TaskReset(bad)
  \/ \E t \in TaskIds, ok \in BOOLEAN, bad \in Throws :
        TaskTextureLoaded(t, ok, bad)
  \/ \E t \in TaskIds : Catch(t)

SpecSequential == InitSequential /\ [][NextSequential]_vars

\* ------------------------------------------------------------ idle rotation
\* The idle tracker of the engine: idle.now is Date.now() and
\* idle.lastInteractionTime the engine's field, both in seconds since the
\* engine was constructed; idle.emitted are the payloads of the
\* idleModeChanged events; idle.event is what happened last.
IDLE_DELAY == 1
MaxTime == 3

EnterIdleMode(I) ==
  LET I1 == [I EXCEPT !.isIdleRotating = TRUE] IN
  IF I.viewer
  THEN [I1 EXCEPT !.autoRotate = TRUE, !.emitted = Append(@, TRUE)]
  ELSE I1

ExitIdleMode(I) ==
  LET I1 == [I EXCEPT !.isIdleRotating = FALSE] IN
  IF I.viewer
  THEN [I1 EXCEPT !.autoRotate = FALSE, !.emitted = Append(@, FALSE)]
  ELSE I1

OnUserInteraction(I) ==
  LET I1 == [I EXCEPT !.lastInteractionTime = I.now] IN
  IF I.isIdleRotating THEN ExitIdleMode(I1) ELSE I1

\* startIdleTracking(): replaces the interval timer by a new one.
StartIdleTracking(I) == [I EXCEPT !.interval = TRUE]

\* The callback of the interval timer.
IdleCheck(I) ==
  IF I.now - I.lastInteractionTime > IDLE_DELAY /\ ~I.isIdleRotating
  THEN EnterIdleMode(I) ELSE I

\* The viewer's load handler, as far as the tracker is concerned.
OnLoad(I) ==
  StartIdleTracking([I EXCEPT !.loaded = TRUE, !.autoRotate = TRUE,
                              !.isIdleRotating = TRUE])

\* Variant: camera changes count as interaction as well.
TrackedEventsAndCamera == {"mousedown", "touchstart", "wheel", "camera-change"}
\* The viewer events whose listener calls onUserInteraction().
TrackedEvents == {"mousedown", "touchstart", "wheel"}
\* Events the viewer dispatches besides load; camera-change is dispatched
\* for programmatic camera moves, too.
ViewerEvents ==
  {"mousedown", "touchstart", "wheel", "camera-change", "progress"}
EngineCalls == {"changeColor", "changeStrap", "changeEnvironment", "reset"}

OnViewerEvent(I, e) == IF e \in TrackedEvents THEN OnUserInteraction(I) ELSE I

IdleFrame ==
  UNCHANGED <<engineVars, startVars, later, log, layout, aside>>

\* createModelViewer(): the element is created with autoRotate false and
\* the listeners are attached.
CreateModelViewer ==
  /\ ~idle.viewer
  /\ idle' = [idle EXCEPT !.viewer = TRUE, !.autoRotate = FALSE,
                          !.event = "create"]
  /\ IdleFrame

ViewerLoad ==
  /\ idle.viewer /\ ~idle.loaded
  /\ idle' = [OnLoad(idle) EXCEPT !.event = "load"]
  /\ IdleFrame

ViewerEvent(e) ==
  /\ idle.viewer
  /\ idle' = [OnViewerEvent(idle, e) EXCEPT !.event = e]
  /\ IdleFrame

\* changeColor, changeStrap, changeEnvironment and reset do not read or
\* write the tracker's fields.
EngineCall(c) ==
  /\ idle' = [idle EXCEPT !.event = c]
  /\ IdleFrame

IntervalFires ==
  /\ idle.interval
  /\ idle' = [IdleCheck(idle) EXCEPT !.event = "interval"]
  /\ IdleFrame

TimePasses ==
  /\ idle.now < MaxTime
  /\ idle' = [idle EXCEPT !.now = @ + 1, !.event = "time"]
  /\ IdleFrame

\* destroy() clears the interval timer.
DestroyTracker ==
  /\ idle.interval
  /\ idle' = [idle EXCEPT !.interval = FALSE, !.event = "destroy"]
  /\ IdleFrame

InitIdle == EngineIdle /\ StartIdle /\ LaterIdle

NextIdle ==
  \/ CreateModelViewer
  \/ ViewerLoad
  \/ \E e \in ViewerEvents : ViewerEvent(e)
  \/ \E c \in EngineCalls : EngineCall(c)
  \/ IntervalFires
  \/ TimePasses
  \/ DestroyTracker

SpecIdle == InitIdle /\ [][NextIdle]_vars

\* -------------------------------------------------------- responsive layout
\* layout.held is this.deviceInfo.deviceType of the orchestrator and
\* layout.isMobile its this.deviceInfo.isMobile; width is window.innerWidth,
\* mobileUA whether the user agent names a mobile platform, touch whether
\* window has ontouchstart; timer is the debounce timer of the resize
\* listener; ui is the dock createUI() built last and rebuilt counts the
\* times the resize callback tore the UI down and built it again; known is
\* the device class of the window at start-up or at the last notification.
MobileWidth == 768
TabletWidth == 1024
MaxResizes == 3
Widths == {600, MobileWidth, MobileWidth + 1, TabletWidth, TabletWidth + 1}

IsMobile(L) == L.width <= MobileWidth \/ L.mobileUA \/ L.touch
IsTablet(L) == L.width > MobileWidth /\ L.width <= TabletWidth

GetDeviceType(L) ==
  IF IsMobile(L) THEN "mobile"
  ELSE IF IsTablet(L) THEN "tablet" ELSE "desktop"

\* The dock createUI() builds.
CreateUI(L) ==
  IF L.isMobile \/ L.width <= MobileWidth THEN "mobile" ELSE "desktop"

\* deviceInfo.deviceType after the constructor: getCapabilities() returns
\* an object without that property.
ConstructedDeviceType(L) == "undefined"

\* The callback setupResponsiveBehavior() hands to addResizeListener, called
\* with the device information of the window as it is now.
OnResizeNotification(L) ==
  LET type == GetDeviceType(L) IN
  IF type # L.held
  THEN LET L1 == [L EXCEPT !.held = type, !.isMobile = IsMobile(L)]
       IN [L1 EXCEPT !.ui = CreateUI(L1), !.rebuilt = @ + 1]
  ELSE L

LayoutFrame ==
  UNCHANGED <<engineVars, startVars, later, log, idle, aside>>

\* initialize() from createUI on: the UI unless showUI is false, the resize
\* listener unless responsive is false.
SetupLayout(showUI, responsive) ==
  /\ ~layout.initialized
  /\ layout' = [layout EXCEPT
                  !.initialized = TRUE,
                  !.ui = IF showUI THEN CreateUI(layout) ELSE "none",
                  !.listening = responsive,
                  !.known = GetDeviceType(layout)]
  /\ LayoutFrame

\* The window is resized: the listener restarts its 250 ms timer.
WindowResize(w) ==
  /\ layout.listening
  /\ layout.resizes < MaxResizes
  /\ layout' = [layout EXCEPT !.width = w, !.timer = TRUE,
                              !.resizes = @ + 1]
  /\ LayoutFrame

\* The debounce timer fires.
ResizeDebounced ==
  /\ layout.timer
  /\ layout' = [OnResizeNotification(layout) EXCEPT
                  !.timer = FALSE, !.known = GetDeviceType(layout)]
  /\ LayoutFrame

InitLayout ==
  /\ EngineIdle
  /\ StartIdle
  /\ widgets = NoState
  /\ device = NoDevice
  /\ support = NoSupport
  /\ config = NoConfig
  /\ binder = NoBinder
  /\ log = <<>>
  /\ idle = NoIdleTracker
  /\ AsideIdle
  /\ \E w \in Widths, ua, touch \in BOOLEAN :
       LET L == [NoLayout EXCEPT !.width = w, !.mobileUA = ua,
                                 !.touch = touch, !.isMobile = ua]
       IN layout = [L EXCEPT !.held = ConstructedDeviceType(L)]

NextLayout ==
  \/ \E showUI, responsive \in BOOLEAN : SetupLayout(showUI, responsive)
  \/ \E w \in Widths : WindowResize(w)
  \/ ResizeDebounced

SpecLayout == InitLayout /\ [][NextLayout]_vars

\* ------------------------------------- start-up for accepted configurations
\* The configurations with the colors, straps and environments of this
\* model that validateConfiguration() and the widget constructors accept.
AcceptedConfigs ==
  {c \in Configs :
     /\ ValidateConfiguration(c) = "ok" /\ ~WidgetsThrow(c)
     /\ c.colors = ColorOrder
     /\ c.straps # <<>> /\ c.environments # <<>>}

\* percentage of the texturePreloadProgress payload:
\* Math.round((preloadedCount / colors.length) * 100)
Percentage(loaded, total) == (200 * loaded + total) \div (2 * total)

\* The engine as its constructor leaves it for an accepted configuration,
\* on a model that has the three materials.
InitAccepted ==
  /\ \E c \in AcceptedConfigs :
       /\ currentState = InitialState(c)
       /\ defaultStrap = c.defaultStrap
  /\ materials = FALSE
  /\ slots = InitialSlots
  /\ textureCache = [u \in Urls |-> Absent]
  /\ createCount = [u \in Urls |-> 0]
  /\ failures = 0
  /\ ops = 0
  /\ tasks = [i \in TaskIds |-> Idle]
  /\ last = NoCall
  /\ scenario = NoScenario
  /\ held = {}
  /\ fetched = [u \in Urls |-> Absent]
  /\ lastGet = NoGet
  /\ StartIdle
  /\ LaterIdle

SpecAccepted == InitAccepted /\ [][NextStartup]_vars

\* ------------------------------------------------------------------ teardown
\* destroy() clears the idle timer, the texture cache and the listener map,
\* and leaves the calls in flight as they are.
LoggedDestroy ==
  /\ ops < MaxOps /\ ops' = ops + 1
  /\ textureCache' = [u \in Urls |-> Absent]
  /\ tasks' = MarkOverlap(tasks)
  /\ last' = NoCall
  /\ scenario' = NoScenario
  /\ log' = Append(log, <<0, "call", "destroy", "-">>)
  /\ UNCHANGED <<currentState, slots, createCount, failures>>
  /\ TraceFrame

NextTeardown ==
  \/ NextTrace
  \/ LoggedDestroy

SpecTeardown == InitTrace /\ [][NextTeardown]_vars


\* ------------------------------------------------------ the strap feedback
\* An engine operation in flight resumes: a texture load settles, a cached
\* texture is delivered, or a catch block runs.
Resume ==
  \E t \in TaskIds :
    \/ \E ok \in BOOLEAN, k \in 0..4 : UITextureLoaded(t, ok, k)
    \/ \E k \in 0..4 : UITextureCached(t, k)
    \/ UICatch(t)

\* Every pending load settles and every continuation runs in the end; the
\* user performs at most MaxOps operations.
SpecChain == SpecUI /\ WF_vars(Resume)


\* ------------------------------------------------------------ the event bus
\* engine.eventListeners.get(event) for one event, as an array of callbacks.
\* The callbacks a page can subscribe: one that returns, one that throws
\* (the orchestrator's own 'error' handler calls this.handleError, which is
\* not defined), one that unsubscribes itself, and one that unsubscribes
\* "listener".
MaxListeners == 3

Callbacks == {"listener", "thrower", "once", "remover"}

Elements(s) == {s[i] : i \in 1..Len(s)}

\* callbacks.indexOf(callback); 0 when it is not in the array
CallbackIndex(list, cb) ==
  IF cb \in Elements(list)
  THEN CHOOSE i \in 1..Len(list) :
         list[i] = cb /\ \A j \in 1..(i - 1) : list[j] # cb
  ELSE 0

\* subscribe(event, callback)
Subscribe(list, cb) == Append(list, cb)

\* unsubscribe(event, callback): splice(index, 1) of the first occurrence
Unsubscribe(list, cb) ==
  LET i == CallbackIndex(list, cb)
  IN IF i = 0 THEN list
     ELSE SubSeq(list, 1, i - 1) \o SubSeq(list, i + 1, Len(list))

\* What calling a callback does to the array it is called from.
CallbackEffect(list, cb) ==
  CASE cb = "once" -> Unsubscribe(list, "once")
    [] cb = "remover" -> Unsubscribe(list, "listener")
    [] OTHER -> list

\* Variant: the callbacks are called without try / catch.
RECURSIVE NotifyListenersUnguarded(_, _)
NotifyListenersUnguarded(D, i) ==
  IF i > Len(D.atStart) \/ i > Len(D.list) THEN D
  ELSE LET cb == D.list[i]
           D1 == [D EXCEPT !.list = CallbackEffect(D.list, cb),
                           !.invoked = Append(D.invoked, cb)]
       IN IF cb = "thrower" THEN [D1 EXCEPT !.threw = TRUE]
          ELSE NotifyListenersUnguarded(D1, i + 1)

\* notifyListeners(event, data): Array.prototype.forEach over the array
\* itself, index by index up to the length it had at the start, each
\* callback inside try / catch.
RECURSIVE NotifyListeners(_, _)
NotifyListeners(D, i) ==
  IF i > Len(D.atStart) \/ i > Len(D.list) THEN D
  ELSE LET cb == D.list[i]
       IN NotifyListeners([D EXCEPT !.list = CallbackEffect(D.list, cb),
                                    !.invoked = Append(D.invoked, cb)],
                          i + 1)

BusFrame ==
  UNCHANGED <<engineVars, startVars, later, log, idle, layout, worker>>

\* configurator.on(event, callback) / engine.subscribe
On(cb) ==
  /\ Len(bus.list) < MaxListeners
  /\ cb \notin Elements(bus.list)
  /\ bus' = [bus EXCEPT !.list = Subscribe(bus.list, cb)]
  /\ BusFrame

\* configurator.off(event, callback) / engine.unsubscribe
Off(cb) ==
  /\ bus' = [bus EXCEPT !.list = Unsubscribe(bus.list, cb)]
  /\ BusFrame

\* An engine operation emits the event.
Emit ==
  /\ LET D == NotifyListeners([bus EXCEPT !.atStart = bus.list,
                                          !.invoked = <<>>,
                                          !.threw = FALSE], 1)
     IN bus' = [D EXCEPT !.atEnd = D.list, !.emitted = TRUE]
  /\ BusFrame

InitBus == EngineIdle /\ StartIdle /\ LaterIdle

NextBus ==
  \/ \E cb \in Callbacks : On(cb)
  \/ \E cb \in Callbacks : Off(cb)
  \/ Emit

SpecBus == InitBus /\ [][NextBus]_vars


\* --------------------------------------------------------- service worker
\* The GET requests the worker is handed, one per branch of handleRequest:
\* a static asset, the 3D model, a texture, a JSON document, anything else.
Paths == {"/", "/public/Weekender.glb", "/textures/red.jpg", "/data.json",
          "/about"}
Accepts == {"text/html", "image/*", "*/*"}
\* fetch(request) resolves with an ok response, resolves with a response
\* that is not ok, or rejects.
Networks == {"ok", "notok", "fails"}

Strategy(path) ==
  CASE path = "/" -> "cacheFirst"
    [] path = "/public/Weekender.glb" -> "cacheFirstWithStreaming"
    [] path = "/textures/red.jpg" -> "cacheFirst"
    [] path = "/data.json" -> "networkFirst"
    [] OTHER -> "staleWhileRevalidate"

\* How an async function of the worker ends: it returns value or throws it.
Returns(cached, value) ==
  [cached |-> cached, settled |-> "resolved", value |-> value]
Rejects(cached, value) ==
  [cached |-> cached, settled |-> "rejected", value |-> value]

\* cache.put(request, networkResponse.clone()) when networkResponse.ok
Put(cached, path, net) == IF net = "ok" THEN cached \cup {path} ELSE cached

\* cacheFirst and cacheFirstWithStreaming
CacheFirst(cached, path, net) ==
  IF path \in cached THEN Returns(cached, "cachedResponse")
  ELSE IF net = "fails" THEN Rejects(cached, "TypeError")
  ELSE Returns(Put(cached, path, net), "networkResponse")

NetworkFirst(cached, path, net) ==
  IF net # "fails" THEN Returns(Put(cached, path, net), "networkResponse")
  ELSE IF path \in cached THEN Returns(cached, "cachedResponse")
  ELSE Rejects(cached, "TypeError")

\* The background fetch's rejection is swallowed by .catch(() => {}), whose
\* promise then resolves with undefined.
StaleWhileRevalidate(cached, path, net) ==
  IF path \in cached THEN Returns(Put(cached, path, net), "cachedResponse")
  ELSE IF net = "fails" THEN Returns(cached, "undefined")
  ELSE Returns(Put(cached, path, net), "networkResponse")

HandleOfflineFallback(cached, accept) ==
  IF accept = "text/html"
  THEN Returns(cached, IF "/" \in cached THEN "cachedRoot" ELSE "offline503")
  ELSE IF accept = "image/*" THEN Returns(cached, "image503")
  ELSE Returns(cached, "offline503")

\* Inside catch (error) the name error is the caught value, not the logging
\* function of the module: error(...) calls the caught value.
Callable(value) == value \notin {"TypeError"}

CatchBlock(R, accept) ==
  IF Callable(R.value) THEN HandleOfflineFallback(R.cached, accept)
  ELSE Rejects(R.cached, "TypeError")

\* handleRequest(request)
HandleRequest(cached, path, accept, net) ==
  LET R == CASE Strategy(path) = "networkFirst" ->
                  NetworkFirst(cached, path, net)
             [] Strategy(path) = "staleWhileRevalidate" ->
                  StaleWhileRevalidate(cached, path, net)
             [] OTHER -> CacheFirst(cached, path, net)
  IN IF R.settled = "rejected" THEN CatchBlock(R, accept) ELSE R

WorkerFrame ==
  UNCHANGED <<engineVars, startVars, later, log, idle, layout, bus>>

\* A fetch event for a GET request over http(s): respondWith(handleRequest).
FetchEvent(path, accept, net) ==
  /\ LET R == HandleRequest(worker.cached, path, accept, net)
     IN worker' = [cached |-> R.cached, path |-> path, accept |-> accept,
                   network |-> net, settled |-> R.settled,
                   value |-> R.value, handled |-> TRUE]
  /\ WorkerFrame

InitWorker == EngineIdle /\ StartIdle /\ LaterIdle

NextWorker ==
  \E path \in Paths, accept \in Accepts, net \in Networks :
    FetchEvent(path, accept, net)

SpecWorker == InitWorker /\ [][NextWorker]_vars

\* ================================================================== claims
Range(seq) == {seq[i] : i \in DOMAIN seq}

\* A changeColor call with a configured id that ran with nothing else in
\* flight has settled.
ColorCallSettled ==
  last.op = "changeColor" /\ FindColor(last.arg) /\ last.alone

\* C1: a changeColor(c) that runs alone and in which every texture load and
\* every texture application succeeds emits exactly colorChanged(c) followed
\* by strapChanged('selected') and leaves the state at
\* {color: c, strap: 'selected', environment: as before the call}.
C1_ChangeColorSettles ==
  (ColorCallSettled /\ ~last.threw /\ ~last.loadFailed) =>
     /\ last.emitted = <<ColorChanged(last.arg), StrapChanged("selected")>>
     /\ last.post = [color |-> last.arg, strap |-> "selected",
                     environment |-> last.pre.environment]
     /\ currentState = last.post

\* A successful color change to another color that had to load textures and
\* replaced a fixed strap.
C1_Witness ==
  /\ ColorCallSettled /\ ~last.threw /\ ~last.loadFailed
  /\ last.arg # last.pre.color /\ last.pre.strap = "orange"
  /\ last.loads > 0 /\ last.wrote

\* C2: when a texture application throws during a changeColor(X) that runs
\* alone while the color is Y, the call ends with color Y, and its events are
\* colorChanged(X), then colorChanged(Y), then one error event.
C2_ApplyFailureRollsBack ==
  (ColorCallSettled /\ last.threw) =>
     /\ last.post.color = last.pre.color
     /\ currentState.color = last.pre.color
     /\ last.emitted = <<ColorChanged(last.arg), ColorChanged(last.pre.color),
                         ErrorEvent("user")>>

\* The materials exist, so the failure was a setTexture that threw, and the
\* requested color differs from the one rolled back to.
C2_Witness ==
  /\ ColorCallSettled /\ last.threw /\ materials
  /\ last.arg # last.pre.color /\ last.loads > 0

\* C3: when the load of one of the textures of X fails during changeColor(X),
\* the call rolls the color back and emits an error event; the selection does
\* not settle at X with a texture that failed to load.
C3_LoadFailureRollsBack ==
  (ColorCallSettled /\ last.loadFailed) =>
     /\ last.post.color = last.pre.color
     /\ ErrorEvent("user") \in Range(last.emitted)

\* C4 as stated: repeating changeColor(c) right after a successful
\* changeColor(c) is a no-op: no event is emitted and no texture load starts.
C4_RepeatIsNoOp ==
  (ColorCallSettled /\ last.repeat) =>
     /\ last.emitted = <<>>
     /\ last.loads = 0

\* C4 amended: repeating changeColor(c) right after a successful
\* changeColor(c) starts no texture load and leaves the state as it was, but
\* colorChanged(c) is emitted again, and strapChanged('selected') too when no
\* texture application throws.
C4_RepeatReemits ==
  (ColorCallSettled /\ last.repeat) =>
     /\ last.loads = 0
     /\ last.post = last.pre
     /\ Head(last.emitted) = ColorChanged(last.arg)
     /\ ~last.threw =>
          last.emitted = <<ColorChanged(last.arg), StrapChanged("selected")>>

\* The repeated call has settled without a failure.
C4_Witness ==
  ColorCallSettled /\ last.repeat /\ ~last.threw /\ last.wrote

\* C5: a change call with an identifier that is not configured leaves the
\* selection state, the material slots, the cache and the set of calls in
\* flight as they were, starts no texture load, emits no event and returns
\* normally.
C5_UnknownIdIsNoOp ==
  [][(ops' # ops /\ last'.arg = Unknown
        /\ last'.op \in {"changeColor", "changeStrap", "changeEnvironment"}) =>
       /\ currentState' = currentState
       /\ slots' = slots
       /\ textureCache' = textureCache
       /\ createCount' = createCount
       /\ tasks' = tasks
       /\ last'.emitted = <<>> /\ last'.loads = 0 /\ ~last'.wrote
       /\ last'.outcome = "resolved"]_vars

\* An unknown environment was requested while another call was in flight.
C5_Witness ==
  /\ last.arg = Unknown /\ last.op = "changeEnvironment"
  /\ InFlight(tasks) # {}

\* C6: a changeStrap(s) with a configured id that runs alone ends with strap
\* s and with the color and the environment it started with.
C6_ChangeStrapFrame ==
  (last.op = "changeStrap" /\ FindStrap(last.arg) /\ last.alone) =>
     /\ last.post.strap = last.arg
     /\ last.post.color = last.pre.color
     /\ last.post.environment = last.pre.environment
     /\ currentState = last.post

\* A strap change to another strap whose texture was loaded and applied.
C6_Witness ==
  /\ last.op = "changeStrap" /\ last.alone /\ ~last.threw
  /\ last.arg # last.pre.strap /\ last.loads > 0 /\ last.wrote

\* C7: once reset() (called with nothing in flight) and the work it started
\* have settled, with no failure anywhere, the state is the configured
\* defaults.
C7_ResetYieldsDefaults ==
  (scenario.kind = "reset" /\ scenario.clean /\ InFlight(tasks) = {}
     /\ materials /\ failures = 0) =>
     currentState = Defaults

\* C8: once the replay of a share link on a new engine has settled, with no
\* failure anywhere, the state is the one the link was taken from.
C8_ShareRoundTrip ==
  (scenario.kind = "url" /\ InFlight(tasks) = {} /\ materials /\ failures = 0) =>
     currentState = scenario.target

\* C9 as stated: the second of two sequential requests for a url returns the
\* handle the first returned and starts no load, whatever the first's outcome.
C9_SameHandleAlways ==
  lastGet.first # Absent =>
     lastGet.second = lastGet.first /\ lastGet.loads = 0

\* C9 amended: when the first of two sequential requests for a url returned a
\* loaded handle, the second returns that same handle and starts no load.
C9_SameHandleAfterSuccess ==
  (lastGet.first # Absent /\ lastGet.first # Null) =>
     lastGet.second = lastGet.first /\ lastGet.loads = 0

\* A second request has been answered with the handle the first one loaded.
C9_Witness ==
  /\ lastGet.first # Absent /\ lastGet.first # Null
  /\ lastGet.second = lastGet.first
  /\ createCount[lastGet.url] = 1

\* C10: writing to an object the engine handed out (a getState() result or
\* the payload of the reset event) never changes the engine's own state.
C10_HandedOutAreCopies ==
  [][\A ref \in {"live", "copy"}, id \in ColorInputs :
       MutateHeld(ref, id) => currentState' = currentState]_vars

\* ------------------------------------------------------- start-up claims
InitializedEmitted == <<"initialized">> \in Range(notified)

\* C11: when one of the three configured materials is absent from the loaded
\* model, engine.initialize rejects, no initialized event is emitted, no
\* texture preloading is started and isReady stays false.
C11_MissingMaterialRejects ==
  (init.model = "load" /\ ~SetupMaterialReferences(init.found))
    => /\ init.engine = "rejected"
       /\ ~InitializedEmitted
       /\ preload.state = "off"
       /\ ~isReady

\* C18: when the model fires error or does not load within the 30 s
\* ceiling, engine.initialize rejects, isReady is false, no initialized
\* event is ever emitted, and the orchestrator's initialize rejects without
\* applying URL parameters and without creating the UI.
C18_ModelFailureHalts ==
  init.model \in {"error", "timeout", "late"}
    => /\ init.engine = "rejected"
       /\ ~isReady
       /\ ~InitializedEmitted
       /\ init.orchestrator = "rejected"
       /\ ~init.urlApplied
       /\ ~init.uiCreated
       /\ ~init.subscribed

\* The wait timed out, the model loaded afterwards and the load handler's
\* timer has run.
C18_Witness ==
  /\ init.model = "late" /\ ~init.timer
  /\ init.engine = "rejected"
  /\ <<"modelLoaded">> \in Range(notified)

\* C19: with embed option responsive: false no resize listener is
\* installed; with responsive: true it is.
C19_ResponsiveOption ==
  init.orchestrator = "resolved"
    => (init.resizeListener <=> init.options.responsive)

PreloadProgress ==
  SelectSeq(notified, LAMBDA e : e[1] = "texturePreloadProgress")
PreloadCompletes ==
  SelectSeq(notified, LAMBDA e : e[1] = "texturePreloadComplete")
PreloadEvents ==
  SelectSeq(notified, LAMBDA e : e[1] \in {"texturePreloadProgress",
                                          "texturePreloadComplete"})
DocumentIndex(c) == CHOOSE i \in DOMAIN ColorOrder : ColorOrder[i] = c

PerInteraction == {"changeColor", "changeStrap", "takeScreenshot", "activateAR"}
ErrorTypes == {"network", "webgl", "configuration", "user"}

\* C12: a changeColor, changeStrap, takeScreenshot or activateAR call never
\* throws, never returns a rejected promise and never leaves an unhandled
\* rejection, whatever the viewer does.
C12_NothingEscapes ==
  last.op \in PerInteraction => last.outcome = "resolved"

\* C13: every failure of a per-interaction operation emits at least one
\* error event whose type is network, webgl, configuration or user.
C13_FailureEmitsError ==
  (last.op \in PerInteraction /\ last.threw)
    => \E e \in Range(last.emitted) : e[1] = "error" /\ e[2] \in ErrorTypes

\* C16: checkARSupport reports supported = true only on secure transport
\* (HTTPS or localhost), with the OS recognised as iOS of version >= 12 or
\* as Android of version >= 7.0, and with at least one of the capability
\* flags WebXR, ARCore, ARKit; in every other case it returns supported =
\* false with a reason, and on insecure transport that reason is
\* 'AR requires HTTPS connection' whatever the other inputs are.
SecureTransport(d) == d.https \/ d.localhost
RecognisedOS(d) ==
  \/ IsiOS(d) /\ GetIOSVersion(d) >= MinIOS
  \/ IsAndroid(d) /\ GetAndroidVersion(d) >= MinAndroid
CapabilityFlag(d) == d.xr = "full" \/ HasARCore(d) \/ HasARKit(d)
C16_FailsClosed ==
  support.called =>
    /\ support.supported =>
         SecureTransport(device) /\ RecognisedOS(device)
         /\ CapabilityFlag(device)
    /\ ~support.supported => support.reason # "null"
    /\ ~SecureTransport(device) =>
         ~support.supported /\ support.reason = "AR requires HTTPS connection"
C16_Witness ==
  /\ support.called /\ ~support.supported
  /\ ~SecureTransport(device)
  /\ RecognisedOS(device) /\ CapabilityFlag(device)

\* C17: on a device that meets the documented AR requirements (HTTPS, and
\* Android 7.0 or later with a Chrome user agent or iOS 12 or later) the OS
\* is recognised and checkARSupport reports supported = true with a mode.
DocumentedAndroid(d) ==
  d.https /\ d.ua.android /\ d.ua.chrome /\ d.androidUA >= MinAndroid
  /\ ~d.ua.iphone /\ ~d.macTouch
DocumentedIOS(d) ==
  d.https /\ d.ua.iphone /\ d.iosUA >= MinIOS /\ ~d.ua.android
C17_DocumentedDevicesSupported ==
  support.called /\ (DocumentedAndroid(device) \/ DocumentedIOS(device)) =>
    /\ support.capabilities.isAndroid \/ support.capabilities.isiOS
    /\ support.supported /\ support.mode # "null"

\* C14: for every configuration that validateConfiguration accepts, the
\* selection state of the constructed configurator names a configured
\* color, a configured strap and a configured environment, and none of the
\* three is undefined.
C14_SelectionConfigured ==
  binder.outcome = "constructed" =>
    /\ currentState.color \in Ids(config.colors)
    /\ currentState.strap \in Ids(config.straps)
    /\ currentState.environment \in Ids(config.environments)

\* C15: whenever no engine operation is in flight, the selection the three
\* widgets show equals the engine's selection state.
C15_WidgetsShowEngineState ==
  InFlight(tasks) = {} => widgets = currentState

\* ------------------------------------------------------ engine claims, II
\* C21: between construction and destroy(), a resource path that has an
\* entry in the texture cache keeps that entry and the handle in it, also
\* when overlapping calls request the same path while a load is in flight;
\* the cache only loses entries by being emptied as a whole.
C21_EntriesAreStable ==
  [][\/ textureCache' = [u \in Urls |-> Absent]
     \/ \A u \in Urls :
          textureCache[u] # Absent => textureCache'[u] = textureCache[u]]_vars

\* The call entry of the call that made entry j of the log.
CallStart(j) ==
  CHOOSE i \in 1..j :
    /\ log[i][1] = log[j][1] /\ log[i][2] = "call"
    /\ \A m \in (i + 1)..j : ~(log[m][1] = log[j][1] /\ log[m][2] = "call")

\* C25: within one changeColor(c) call with a configured id, the state's
\* color is set to c and colorChanged(c) is emitted before the call
\* requests its first texture load and before it writes any material slot.
C25_OptimisticUpdateFirst ==
  \A j \in DOMAIN log :
    log[j][2] \in {"load", "write"} =>
      LET i == CallStart(j) IN
      \E a, b \in (i + 1)..(j - 1) :
        /\ a < b
        /\ log[a] = <<log[j][1], "state", "color", log[i][4]>>
        /\ log[b] = <<log[j][1], "emit", "colorChanged", log[i][4]>>

\* A call that requested a load and later wrote the primary slot.
C25_Witness ==
  \E j, m \in DOMAIN log :
    /\ j < m /\ log[j][1] = log[m][1] /\ CallStart(j) = CallStart(m)
    /\ log[j][2] = "load" /\ log[m][2] = "write" /\ log[m][3] = "primary"

\* Calls with a configured id, and pairs of them of which the second was
\* made before the first returned.
ColorCalls == {i \in DOMAIN log : log[i][2] = "call" /\ FindColor(log[i][4])}
Overlap(i, j) ==
  /\ i \in ColorCalls /\ j \in ColorCalls /\ i < j
  /\ \A m \in i..j : ~(log[m][1] = log[i][1] /\ log[m][2] = "settle")
SettledOk(i) ==
  \E m \in DOMAIN log :
    m > i /\ log[m] = <<log[i][1], "settle", "ok", "-">> /\ CallStart(m) = i
LastWrite(slot) ==
  CHOOSE m \in DOMAIN log :
    /\ log[m][2] = "write" /\ log[m][3] = slot
    /\ \A n \in DOMAIN log : (log[n][2] = "write" /\ log[n][3] = slot) => n <= m

C24_EveryChangeBroadcast ==
  (last.op \in {"changeColor", "changeStrap", "changeEnvironment"}
     /\ last.alone) =>
     /\ last.post.color # last.pre.color =>
          ColorChanged(last.post.color) \in Range(last.emitted)
     /\ last.post.strap # last.pre.strap =>
          StrapChanged(last.post.strap) \in Range(last.emitted)
     /\ last.post.environment # last.pre.environment =>
          EnvironmentChanged(last.post.environment) \in Range(last.emitted)

\* C26: a changeStrap(s) call with a configured id that ran alone emits
\* strapChanged(s) only once the texture of strap s is on the accent slot;
\* when the application failed it has emitted nothing and the state's strap
\* is s all the same.
C26_StrapEventAfterApplication ==
  (last.op = "changeStrap" /\ FindStrap(last.arg) /\ last.alone) =>
     /\ StrapChanged(last.arg) \in Range(last.emitted) =>
          slots.accent[1] = StrapTexture(last.arg, last.post.color)
     /\ last.threw =>
          last.emitted = <<>> /\ last.post.strap = last.arg

\* C28: when the operations run one at a time to completion and every
\* texture load and application succeeds, then after each operation has
\* settled the primary slot holds the current color's primary texture, the
\* secondary slot its accent texture, and the accent slot the current
\* color's accent texture when the strap is 'selected' and the strap's own
\* texture otherwise.
OneAtATime == \A i \in 1..Len(log) : log[i][4] = "alone"
C28_SlotsFollowState ==
  (InFlight(tasks) = {} /\ failures = 0 /\ materials /\ OneAtATime) =>
     /\ slots.primary[1] = ColorTextures(currentState.color).primary
     /\ slots.secondary[1] = ColorTextures(currentState.color).accent
     /\ slots.accent[1] = StrapTexture(currentState.strap, currentState.color)
C28_Witness ==
  /\ InFlight(tasks) = {} /\ failures = 0 /\ materials /\ OneAtATime
  /\ Len(log) = 2 /\ log[1][3] = "changeColor" /\ log[2][3] = "changeStrap"
  /\ currentState.color = "sky blue" /\ currentState.strap = "orange"
  /\ slots.primary[1] = "sky_p" /\ slots.accent[1] = "orange_a"
C28_ResetWitness ==
  /\ InFlight(tasks) = {} /\ failures = 0 /\ OneAtATime
  /\ Len(log) = 1 /\ log[1][3] = "reset" /\ defaultStrap = "orange"

\* ---- start-up claims, II
\* C29: the engine does not emit its initialized event before
\* XRUpgradeConfigurator.initialize has subscribed the handler that hides
\* the loading screen, so that handler is invoked for every successful
\* initialization.
C29_InitializedAfterSubscription ==
  [][(~InitializedEmitted /\ InitializedEmitted') => init.subscribed]_vars

\* ---- idle tracker claims
\* C22: the idle flag goes from Active to Idle only when the periodic check
\* finds more than the idle threshold elapsed since the last tracked
\* interaction, and from Idle to Active only on a tracked interaction; every
\* change of the idle flag or of the auto-rotate flag is accompanied by an
\* idleModeChanged event carrying the new value.
C22_IdleTransitions ==
  [][/\ (~idle.isIdleRotating /\ idle'.isIdleRotating) =>
          /\ idle'.event = "interval"
          /\ idle.now - idle.lastInteractionTime > IDLE_DELAY
     /\ (idle.isIdleRotating /\ ~idle'.isIdleRotating) =>
          idle'.event \in {"mousedown", "touchstart", "wheel"}
     /\ (idle'.isIdleRotating # idle.isIdleRotating
         \/ idle'.autoRotate # idle.autoRotate) =>
          idle'.emitted = Append(idle.emitted, idle'.isIdleRotating)]_vars

C30_RebuildOnlyOnClassChange ==
  [][layout'.rebuilt # layout.rebuilt =>
       GetDeviceType(layout) # layout.known]_vars

\* ---- engine claims, III
SettledThrew(i) ==
  \E m \in DOMAIN log :
    m > i /\ log[m] = <<log[i][1], "settle", "threw", "-">> /\ CallStart(m) = i

\* C32: when changeColor(A) fails after changeColor(B) was made, and B, the
\* latest call, succeeds, then once both have settled the color is B: the
\* rollback of A does not overwrite the color B chose.
C32_RollbackKeepsLaterColor ==
  \A i, j \in DOMAIN log :
    (Overlap(i, j) /\ (\A m \in ColorCalls : m <= j)
       /\ InFlight(tasks) = {} /\ SettledThrew(i) /\ SettledOk(j)) =>
      currentState.color = log[j][4]

\* ---- start-up claims, III
\* C37: once engine.initialize has resolved, engine.isReady is true in
\* every later state, also after the background preload has completed.
C37_ReadyStaysTrue == init.engine = "resolved" => isReady

ProgressEvents ==
  SelectSeq(notified, LAMBDA e : e[1] = "texturePreloadProgress")
CompleteEvents ==
  SelectSeq(notified, LAMBDA e : e[1] = "texturePreloadComplete")

\* C39: for every accepted configuration each texturePreloadProgress event
\* has 1 <= loaded <= total = number of configured colors and a percentage
\* of at most 100, loaded grows by one from each progress event to the next,
\* and texturePreloadComplete reports loaded <= total.
C39_PreloadProgressInRange ==
  /\ \A i \in DOMAIN ProgressEvents :
       LET e == ProgressEvents[i] IN
       /\ e[2] = i
       /\ e[3] = Len(ColorOrder)
       /\ 1 <= e[2] /\ e[2] <= e[3]
       /\ Percentage(e[2], e[3]) <= 100
  /\ \A i \in DOMAIN CompleteEvents :
       CompleteEvents[i][2] <= CompleteEvents[i][3]

\* ---- interaction claims, II
\* C40: for one activateAR() call on a loaded model over HTTPS the viewer's
\* activateAR is attempted at most RetryLimit + 1 times; an attempt after
\* the first is made only by the retry timer, which is armed only by a
\* failed attempt with fewer than RetryLimit retries behind it, and after
\* the last attempt no retry is scheduled.
C40_ARRetryBounded ==
  [][/\ ar'.attempts <= RetryLimit + 1
     /\ (ar.attempts >= 1 /\ ar'.attempts = ar.attempts + 1) =>
          ar.state = "retryTimer"
     /\ (ar'.state = "retryTimer" /\ ar.state # "retryTimer") =>
          /\ ar.state = "attempting"
          /\ ar.retryCount < RetryLimit
          /\ ar'.attempts <= RetryLimit]_vars
C40_Witness ==
  /\ viewer.loaded /\ viewer.https
  /\ ar.attempts = RetryLimit + 1 /\ ar.state = "done" /\ ar.failed

\* ---- teardown claims
Destroyed == {d \in DOMAIN log : log[d] = <<0, "call", "destroy", "-">>}

\* C38: after destroy() has returned, and with no call made to the engine
\* afterwards, the texture cache stays empty and no further texture load is
\* requested from the viewer, also when a change operation was in flight at
\* the time of destroy.
C38_DestroyIsFinal ==
  \A d \in Destroyed :
    (\A j \in DOMAIN log : j > d => log[j][2] # "call") =>
      /\ \A u \in Urls : textureCache[u] = Absent
      /\ \A j \in DOMAIN log : j > d => log[j][2] # "load"

\* ------------------------------------------------------ orchestrator claims
\* The engine operations a step started: the tasks in flight after it that
\* were not in flight before it.
Started == InFlight(tasks') \ InFlight(tasks)

\* C34: one call of the public changeColor(c) (resp. changeStrap) with a
\* configured id different from the current one invokes the engine's change
\* operation exactly once, with the widgets created.
C34_PublicCallInvokesEngineOnce ==
  [][/\ \A id \in Colors :
          id # currentState.color /\ PublicChangeColor(id)
            => Cardinality(Started) = 1
     /\ \A id \in Straps :
          id # currentState.strap /\ PublicChangeStrap(id)
            => Cardinality(Started) = 1]_vars

\* C33: the chain strapChanged -> setStrap -> changeStrap quiesces: after
\* the user's finitely many operations, from some point on no engine
\* operation is in flight, so no further strapChanged is emitted and no
\* further write is made to the accent slot.
C33_ChainQuiesces == <>[](InFlight(tasks) = {})

\* ---------------------------------------------------------- event bus claims
\* The callbacks of a sequence that the list l still holds.
StillIn(s, l) == SelectSeq(s, LAMBDA c : c \in Elements(l))

\* C35: a listener that throws does not keep the other listeners of the
\* event from being called and its exception does not reach the emitting
\* operation: after a dispatch during which nobody unsubscribed, every
\* subscribed listener was called, in order, and nothing was thrown into
\* the emitter.
C35_ThrowingListenerIsolated ==
  bus.emitted =>
    /\ ~bus.threw
    /\ bus.atEnd = bus.atStart => bus.invoked = bus.atStart

\* A dispatch in which a listener subscribed after the throwing one was
\* called.
C35_Witness ==
  /\ bus.emitted
  /\ bus.atEnd = bus.atStart
  /\ Len(bus.atStart) >= 2
  /\ bus.atStart[1] = "thrower"
  /\ bus.invoked = bus.atStart
  /\ ~bus.threw

\* C36: for each emitted event every listener that was subscribed when the
\* emission started and is not unsubscribed during it is called exactly
\* once, in subscription order.
C36_RemainingListenersCalledOnce ==
  bus.emitted =>
    StillIn(bus.invoked, bus.atEnd) = StillIn(bus.atStart, bus.atEnd)

\* ----------------------------------------------------- service worker claim
\* C31: handleRequest never rejects and resolves to a Response; when serving
\* fails (the network fails and there is no cached copy) it resolves with
\* the offline fallback: the cached '/' for HTML requests, else a 503.
C31_HandleRequestResolves ==
  worker.handled =>
    /\ worker.settled = "resolved"
    /\ worker.value \in {"cachedResponse", "networkResponse", "cachedRoot",
                         "offline503", "image503"}
====
